---- MODULE Spec2Model ----
(***************************************************************************)
(* Appointment lifecycle of the telemedicine server: booking, status      *)
(* updates, payments, consultation start and prescriptions.                *)
(*                                                                         *)
(* Every Express handler is an async function; the event loop can run      *)
(* another request at each `await`.  A handler is therefore modelled as a  *)
(* request that moves through its awaits: one action per stretch of code   *)
(* between two awaits that touch the store.  Requests in flight are kept   *)
(* in the bag `inflight` together with the documents they have loaded.     *)
(***************************************************************************)
EXTENDS Bags, FiniteSets, Integers, Sequences, TLC

(* ------------------------------ bounds -------------------------------- *)
MaxAppts == 2
MaxPayments == 2
MaxPrescriptions == 2
MaxInflight == 2
MaxNow == 30
MaxSockets == 2
MaxMessages == 2
MaxRows == 2

(* ------------------------------ users --------------------------------- *)
Patients == {"p1", "p2"}
Doctors == {"d1", "d2"}
Admins == {"adm"}
Users == Patients \cup Doctors \cup Admins

role(u) ==
  IF u \in Patients THEN "patient"
  ELSE IF u \in Doctors THEN "doctor"
  ELSE IF u \in Admins THEN "admin"
  ELSE "none"

(* authorizeRoles(...roles): TRUE when the request passes the middleware *)
authorizeRoles(roles, u) == role(u) \in roles

(* ------------------------------ schemas ------------------------------- *)
AppointmentStatuses ==
  {"pending", "confirmed", "paid", "consultation", "completed", "cancelled"}
PaymentStatuses == {"pending", "completed", "failed", "cancelled"}

(* minutes; the conflict window of bookAppointment is 30 * 60000 ms *)
Window == 30
baseAmount == 500

VARIABLES
  appointments,   \* sequence of appointment documents, _id = index
  payments,       \* sequence of payment documents, _id = index
  prescriptions,  \* sequence of prescription documents, _id = index
  inflight,       \* bag of requests suspended at an await
  lastResp,       \* the response sent last
  now,            \* the server clock, minutes
  everCompleted,  \* history: appointments one of whose payments was stored completed
  everConsult,    \* history: appointments whose status was stored consultation
  paidOver,       \* history: the status the last payment completion overwrote with paid
  scenario,       \* the load the clients put on the server: how many requests
                  \* overlap and how many appointments they book; never changes
  sockets,        \* Socket.IO connections: state and socket.userId of each socket
  connectedUsers, \* the Map of index.js: user id -> socket id, 0 for no entry
  messages,       \* sequence of message documents, _id = index
  emitted,        \* the new_message events emitted so far, in order
  form            \* the prescription form of the doctor's client

chatVars == <<sockets, connectedUsers, messages, emitted>>

vars == <<appointments, payments, prescriptions, inflight, lastResp, now,
          everCompleted, everConsult, paidOver, scenario, chatVars, form>>

NoResp == [op |-> "none", code |-> 0, id |-> 0, msg |-> ""]

Constructed ==
  /\ appointments = <<>>
  /\ payments = <<>>
  /\ prescriptions = <<>>
  /\ inflight = EmptyBag
  /\ lastResp = NoResp
  /\ now = 0
  /\ everCompleted = {}
  /\ everConsult = {}
  /\ paidOver = "none"
  /\ sockets = [s \in 1..MaxSockets |-> [state |-> "idle", userId |-> ""]]
  /\ connectedUsers = [u \in Users |-> 0]
  /\ messages = <<>>
  /\ emitted = <<>>
  /\ form = [diagnosis |-> <<>>, medications |-> <<>>, instructions |-> <<>>,
             followUpDate |-> <<>>, notes |-> <<>>, outcome |-> "closed",
             alert |-> "", sent |-> <<>>]

Init ==
  /\ Constructed
  /\ scenario = [overlap |-> MaxInflight, appointments |-> MaxAppts]

(* ------------------------------ helpers ------------------------------- *)
Respond(op, code, id, msg) ==
  lastResp' = [op |-> op, code |-> code, id |-> id, msg |-> msg]

Suspend(r) == inflight' = inflight (+) SetToBag({r})
Resume(r, r2) == inflight' = (inflight (-) SetToBag({r})) (+) SetToBag({r2})
Finish(r) == inflight' = inflight (-) SetToBag({r})
CanAccept == BagCardinality(inflight) < scenario.overlap
Pending(op) == {r \in BagToSet(inflight) : r.op = op}
CountOf(op) ==
  LET S == Pending(op)
      RECURSIVE Sum(_)
      Sum(T) == IF T = {} THEN 0
                ELSE LET x == CHOOSE y \in T : TRUE
                     IN CopiesIn(x, inflight) + Sum(T \ {x})
  IN Sum(S)

(* Model.findById: the document, when the id exists *)
Exists(coll, id) == id \in 1..Len(coll)

(* document.save() of a loaded document: mongoose sends a $set of the     *)
(* paths whose value differs from the loaded one, so the other paths keep  *)
(* whatever the store holds at the time of the write                       *)
SaveDoc(stored, seen, new) ==
  [f \in DOMAIN stored |-> IF new[f] # seen[f] THEN new[f] ELSE stored[f]]

Abs(x) == IF x < 0 THEN -x ELSE x

(* what the checks of a handler decide: an error response, or to go on *)
Refuse(code, msg) == [code |-> code, msg |-> msg]
GoOn == [code |-> 0, msg |-> ""]

(* ======================= appointmentController ======================== *)

(* the query of bookAppointment's Appointment.findOne: an appointment of   *)
(* the doctor within 30 minutes of dateTime whose status is pending or     *)
(* confirmed                                                               *)
BlockingStatuses == {"pending", "confirmed"}

conflictingAppointment(doctorId, dateTime) ==
  {i \in 1..Len(appointments) :
     /\ appointments[i].doctorId = doctorId
     /\ appointments[i].dateTime >= dateTime - Window
     /\ appointments[i].dateTime <= dateTime + Window
     /\ appointments[i].status \in BlockingStatuses}

(* bookAppointmentChecks with the date test as < instead of <= *)
bookAppointmentChecksBeforeNow(caller, doctorId, dateTime) ==
  IF ~authorizeRoles({"patient"}, caller) THEN Refuse(403, "Access denied")
  ELSE IF role(doctorId) # "doctor" THEN Refuse(404, "Doctor not found")
  ELSE IF dateTime < now THEN Refuse(400, "Appointment must be in the future")
  ELSE GoOn

(* POST /appointments/book up to the await of Appointment.findOne *)
bookAppointmentChecks(caller, doctorId, dateTime) ==
  IF ~authorizeRoles({"patient"}, caller) THEN Refuse(403, "Access denied")
  ELSE IF role(doctorId) # "doctor" THEN Refuse(404, "Doctor not found")
  ELSE IF dateTime <= now THEN Refuse(400, "Appointment must be in the future")
  ELSE GoOn

BookBegin(caller, doctorId, dateTime) ==
  /\ CanAccept
  /\ LET c == bookAppointmentChecks(caller, doctorId, dateTime) IN
     IF c # GoOn
       THEN /\ Respond("bookAppointment", c.code, 0, c.msg)
            /\ UNCHANGED inflight
       ELSE /\ Len(appointments) + CountOf("bookAppointment") < scenario.appointments
            /\ Suspend([op |-> "bookAppointment", pc |-> "find", patientId |-> caller,
                        doctorId |-> doctorId, dateTime |-> dateTime])
            /\ UNCHANGED lastResp
  /\ UNCHANGED <<appointments, payments, prescriptions, now, everCompleted, everConsult, paidOver, scenario, chatVars, form>>

(* Appointment.findOne resolves: the conflict check *)
BookFind(r) ==
  /\ r \in BagToSet(inflight) /\ r.op = "bookAppointment" /\ r.pc = "find"
  /\ IF conflictingAppointment(r.doctorId, r.dateTime) # {}
       THEN /\ Finish(r)
            /\ Respond("bookAppointment", 400, 0, "Time slot not available")
       ELSE /\ Resume(r, [r EXCEPT !.pc = "save"])
            /\ UNCHANGED lastResp
  /\ UNCHANGED <<appointments, payments, prescriptions, now, everCompleted, everConsult, paidOver, scenario, chatVars, form>>

(* appointment.save() of the new document; status defaults to pending *)
BookSave(r) ==
  /\ r \in BagToSet(inflight) /\ r.op = "bookAppointment" /\ r.pc = "save"
  /\ appointments' = Append(appointments,
       [patientId |-> r.patientId, doctorId |-> r.doctorId,
        dateTime |-> r.dateTime, status |-> "pending"])
  /\ Finish(r)
  /\ Respond("bookAppointment", 201, Len(appointments) + 1, "Appointment booked successfully")
  /\ UNCHANGED <<payments, prescriptions, now, everCompleted, everConsult, paidOver, scenario, chatVars, form>>

(* updateAppointmentStatusChecks without the test of the owner *)
updateAppointmentStatusChecksAnyDoctor(caller, id, status) ==
  IF ~authorizeRoles({"doctor"}, caller) THEN Refuse(403, "Access denied")
  ELSE IF status \notin AppointmentStatuses THEN Refuse(400, "Invalid status")
  ELSE IF ~Exists(appointments, id) THEN Refuse(404, "Appointment not found")
  ELSE GoOn

(* PUT /appointments/:id up to the await of appointment.save() *)
updateAppointmentStatusChecks(caller, id, status) ==
  IF ~authorizeRoles({"doctor"}, caller) THEN Refuse(403, "Access denied")
  ELSE IF status \notin AppointmentStatuses THEN Refuse(400, "Invalid status")
  ELSE IF ~Exists(appointments, id) THEN Refuse(404, "Appointment not found")
  ELSE IF appointments[id].doctorId # caller THEN Refuse(403, "Not authorized")
  ELSE GoOn

UpdateStatusBegin(caller, id, status) ==
  /\ CanAccept
  /\ LET c == updateAppointmentStatusChecks(caller, id, status) IN
     IF c # GoOn
       THEN /\ Respond("updateStatus", c.code, id, c.msg)
            /\ UNCHANGED inflight
       ELSE /\ Suspend([op |-> "updateStatus", pc |-> "save", id |-> id,
                        seen |-> appointments[id],
                        doc |-> [appointments[id] EXCEPT !.status = status]])
            /\ UNCHANGED lastResp
  /\ UNCHANGED <<appointments, payments, prescriptions, now, everCompleted, everConsult, paidOver, scenario, chatVars, form>>

(* appointment.save() of updateAppointmentStatus *)
UpdateStatusSave(r) ==
  /\ r \in BagToSet(inflight) /\ r.op = "updateStatus" /\ r.pc = "save"
  /\ appointments' = [appointments EXCEPT ![r.id] = SaveDoc(@, r.seen, r.doc)]
  /\ everConsult' = IF appointments'[r.id].status = "consultation"
                      THEN everConsult \cup {r.id} ELSE everConsult
  /\ Finish(r)
  /\ Respond("updateStatus", 200, r.id, "Appointment status updated successfully")
  /\ UNCHANGED <<payments, prescriptions, now, everCompleted, paidOver, scenario, chatVars, form>>

(* ======================= prescriptionController ======================= *)

(* startConsultationChecks without the test of the status *)
startConsultationChecksAnyStatus(caller, id) ==
  IF ~authorizeRoles({"doctor"}, caller) THEN Refuse(403, "Access denied")
  ELSE IF ~Exists(appointments, id) THEN Refuse(404, "Appointment not found")
  ELSE IF appointments[id].doctorId # caller THEN Refuse(403, "Not authorized")
  ELSE GoOn

(* POST /prescriptions/appointment/:appointmentId/start-consultation up to *)
(* the await of appointment.save()                                         *)
startConsultationChecks(caller, id) ==
  IF ~authorizeRoles({"doctor"}, caller) THEN Refuse(403, "Access denied")
  ELSE IF ~Exists(appointments, id) THEN Refuse(404, "Appointment not found")
  ELSE IF appointments[id].doctorId # caller THEN Refuse(403, "Not authorized")
  ELSE IF appointments[id].status # "paid"
    THEN Refuse(400, "Appointment must be paid before starting consultation")
  ELSE GoOn

StartConsultationBegin(caller, id) ==
  /\ CanAccept
  /\ LET c == startConsultationChecks(caller, id) IN
     IF c # GoOn
       THEN /\ Respond("startConsultation", c.code, id, c.msg)
            /\ UNCHANGED inflight
       ELSE /\ Suspend([op |-> "startConsultation", pc |-> "save", id |-> id,
                        seen |-> appointments[id],
                        doc |-> [appointments[id] EXCEPT !.status = "consultation"]])
            /\ UNCHANGED lastResp
  /\ UNCHANGED <<appointments, payments, prescriptions, now, everCompleted, everConsult, paidOver, scenario, chatVars, form>>

(* appointment.save() of startConsultation *)
StartConsultationSave(r) ==
  /\ r \in BagToSet(inflight) /\ r.op = "startConsultation" /\ r.pc = "save"
  /\ appointments' = [appointments EXCEPT ![r.id] = SaveDoc(@, r.seen, r.doc)]
  /\ everConsult' = everConsult \cup {r.id}
  /\ Finish(r)
  /\ Respond("startConsultation", 200, r.id, "Consultation started successfully")
  /\ UNCHANGED <<payments, prescriptions, now, everCompleted, paidOver, scenario, chatVars, form>>


(* ================= prescriptionController: prescriptions ============== *)

(* schema validation of a prescription document at save(): diagnosis and   *)
(* the four fields of every medication are required strings                *)
medicationValid(m) ==
  m.name # "" /\ m.dosage # "" /\ m.frequency # "" /\ m.duration # ""

prescriptionValid(doc) ==
  /\ doc.diagnosis # ""
  /\ \A i \in 1..Len(doc.medications) : medicationValid(doc.medications[i])
  /\ doc.status \in {"active", "completed", "cancelled"}

(* Prescription.findOne({ appointmentId }): the first match, 0 when none *)
existingPrescription(appointmentId) ==
  LET S == {j \in 1..Len(prescriptions) :
              prescriptions[j].appointmentId = appointmentId}
  IN IF S = {} THEN 0 ELSE CHOOSE j \in S : \A k \in S : j <= k

(* createPrescriptionChecks without the test of the status *)
createPrescriptionChecksAnyStatus(caller, appointmentId) ==
  IF ~authorizeRoles({"doctor"}, caller) THEN Refuse(403, "Access denied")
  ELSE IF ~Exists(appointments, appointmentId) THEN Refuse(404, "Appointment not found")
  ELSE IF appointments[appointmentId].doctorId # caller
    THEN Refuse(403, "Not authorized to create prescription for this appointment")
  ELSE GoOn

(* createPrescriptionChecks with the status test of startConsultation *)
createPrescriptionChecksWhenPaid(caller, appointmentId) ==
  IF ~authorizeRoles({"doctor"}, caller) THEN Refuse(403, "Access denied")
  ELSE IF ~Exists(appointments, appointmentId) THEN Refuse(404, "Appointment not found")
  ELSE IF appointments[appointmentId].doctorId # caller
    THEN Refuse(403, "Not authorized to create prescription for this appointment")
  ELSE IF appointments[appointmentId].status # "paid"
    THEN Refuse(400, "Appointment must be in consultation status")
  ELSE GoOn

(* POST /prescriptions/create up to the await of Prescription.findOne *)
createPrescriptionChecks(caller, appointmentId) ==
  IF ~authorizeRoles({"doctor"}, caller) THEN Refuse(403, "Access denied")
  ELSE IF ~Exists(appointments, appointmentId) THEN Refuse(404, "Appointment not found")
  ELSE IF appointments[appointmentId].doctorId # caller
    THEN Refuse(403, "Not authorized to create prescription for this appointment")
  ELSE IF appointments[appointmentId].status # "consultation"
    THEN Refuse(400, "Appointment must be in consultation status")
  ELSE GoOn

CreatePrescriptionBegin(caller, appointmentId, body) ==
  /\ CanAccept
  /\ LET c == createPrescriptionChecks(caller, appointmentId) IN
     IF c # GoOn
       THEN /\ Respond("createPrescription", c.code, appointmentId, c.msg)
            /\ UNCHANGED inflight
       ELSE /\ Len(prescriptions) + CountOf("createPrescription") < MaxPrescriptions
            /\ Suspend([op |-> "createPrescription", pc |-> "find",
                        appointmentId |-> appointmentId, doctorId |-> caller,
                        patientId |-> appointments[appointmentId].patientId,
                        body |-> body])
            /\ UNCHANGED lastResp
  /\ UNCHANGED <<appointments, payments, prescriptions, now, everCompleted, everConsult, paidOver, scenario, chatVars, form>>

(* Prescription.findOne resolves: the existence check *)
CreatePrescriptionFind(r) ==
  /\ r \in BagToSet(inflight) /\ r.op = "createPrescription" /\ r.pc = "find"
  /\ IF existingPrescription(r.appointmentId) # 0
       THEN /\ Finish(r)
            /\ Respond("createPrescription", 400, r.appointmentId,
                       "Prescription already exists for this appointment")
       ELSE /\ Resume(r, [r EXCEPT !.pc = "save"])
            /\ UNCHANGED lastResp
  /\ UNCHANGED <<appointments, payments, prescriptions, now, everCompleted, everConsult, paidOver, scenario, chatVars, form>>

(* CreatePrescriptionSave that also closes the appointment *)
CreatePrescriptionSaveClosing(r) ==
  /\ r \in BagToSet(inflight) /\ r.op = "createPrescription" /\ r.pc = "save"
  /\ prescriptions' = Append(prescriptions,
       [appointmentId |-> r.appointmentId, doctorId |-> r.doctorId,
        patientId |-> r.patientId, diagnosis |-> r.body.diagnosis,
        medications |-> r.body.medications, instructions |-> r.body.instructions,
        followUpDate |-> r.body.followUpDate, notes |-> r.body.notes,
        status |-> "active"])
  /\ appointments' = [appointments EXCEPT ![r.appointmentId].status = "completed"]
  /\ Respond("createPrescription", 201, r.appointmentId, "Prescription created successfully")
  /\ Finish(r)
  /\ UNCHANGED <<payments, now, everCompleted, everConsult, paidOver, scenario, chatVars, form>>

(* prescription.save() of the new document; status defaults to active *)
CreatePrescriptionSave(r) ==
  /\ r \in BagToSet(inflight) /\ r.op = "createPrescription" /\ r.pc = "save"
  /\ LET doc == [appointmentId |-> r.appointmentId, doctorId |-> r.doctorId,
                 patientId |-> r.patientId, diagnosis |-> r.body.diagnosis,
                 medications |-> r.body.medications,
                 instructions |-> r.body.instructions,
                 followUpDate |-> r.body.followUpDate,
                 notes |-> r.body.notes, status |-> "active"]
     IN IF prescriptionValid(doc)
          THEN /\ prescriptions' = Append(prescriptions, doc)
               /\ Respond("createPrescription", 201, r.appointmentId,
                          "Prescription created successfully")
          ELSE /\ UNCHANGED prescriptions
               /\ Respond("createPrescription", 500, r.appointmentId, "Server error")
  /\ Finish(r)
  /\ UNCHANGED <<appointments, payments, now, everCompleted, everConsult, paidOver, scenario, chatVars, form>>

(* ========================= paymentController ========================== *)

(* the enum of paymentSchema.paymentMethod *)
PaymentMethods ==
  {"telebirr", "cbe_birr", "dashen_bank", "awash_bank", "bank_of_abyssinia",
   "united_bank", "lion_bank", "cooperative_bank", "nib_bank", "wegagen_bank"}

(* schema validation of a payment document at save() *)
paymentValid(doc) ==
  /\ doc.paymentMethod \in PaymentMethods
  /\ doc.status \in PaymentStatuses

(* the unique index on transactionId: no other document holds the value *)
transactionIdFree(txn, self) ==
  \A j \in 1..Len(payments) : j # self => payments[j].transactionId # txn

(* Payment.findOne({ appointmentId }): the first matching document, 0 when *)
(* there is none                                                           *)
existingPayment(appointmentId) ==
  LET S == {j \in 1..Len(payments) : payments[j].appointmentId = appointmentId}
  IN IF S = {} THEN 0 ELSE CHOOSE j \in S : \A k \in S : j <= k

(* requests of createPayment that may still insert a document *)
CountInserting ==
  LET S == {r \in BagToSet(inflight) :
              r.op = "createPayment" /\ r.pc \in {"find", "create"}}
      RECURSIVE Sum(_)
      Sum(T) == IF T = {} THEN 0
                ELSE LET x == CHOOSE y \in T : TRUE
                     IN CopiesIn(x, inflight) + Sum(T \ {x})
  IN Sum(S)

(* createPaymentChecks without the test of the status *)
createPaymentChecksAnyStatus(caller, appointmentId) ==
  IF ~authorizeRoles({"patient"}, caller) THEN Refuse(403, "Access denied")
  ELSE IF ~Exists(appointments, appointmentId) THEN Refuse(404, "Appointment not found")
  ELSE IF appointments[appointmentId].patientId # caller
    THEN Refuse(403, "Not authorized to pay for this appointment")
  ELSE GoOn

(* createPaymentChecks without the test that the caller is the patient of   *)
(* the appointment                                                         *)
createPaymentChecksAnyPatient(caller, appointmentId) ==
  IF ~authorizeRoles({"patient"}, caller) THEN Refuse(403, "Access denied")
  ELSE IF ~Exists(appointments, appointmentId) THEN Refuse(404, "Appointment not found")
  ELSE IF appointments[appointmentId].status # "confirmed"
    THEN Refuse(400, "Appointment must be confirmed before payment")
  ELSE GoOn

(* POST /payments/create up to the await of Payment.findOne *)
createPaymentChecks(caller, appointmentId) ==
  IF ~authorizeRoles({"patient"}, caller) THEN Refuse(403, "Access denied")
  ELSE IF ~Exists(appointments, appointmentId) THEN Refuse(404, "Appointment not found")
  ELSE IF appointments[appointmentId].patientId # caller
    THEN Refuse(403, "Not authorized to pay for this appointment")
  ELSE IF appointments[appointmentId].status # "confirmed"
    THEN Refuse(400, "Appointment must be confirmed before payment")
  ELSE GoOn

CreatePaymentBegin(caller, appointmentId, paymentMethod, paymentDetails) ==
  /\ CanAccept
  /\ LET c == createPaymentChecks(caller, appointmentId) IN
     IF c # GoOn
       THEN /\ Respond("createPayment", c.code, appointmentId, c.msg)
            /\ UNCHANGED inflight
       ELSE /\ \/ existingPayment(appointmentId) # 0
               \/ Len(payments) + CountInserting < MaxPayments
            /\ Suspend([op |-> "createPayment", pc |-> "find",
                        appointmentId |-> appointmentId, patientId |-> caller,
                        doctorId |-> appointments[appointmentId].doctorId,
                        paymentMethod |-> paymentMethod,
                        paymentDetails |-> paymentDetails])
            /\ UNCHANGED lastResp
  /\ UNCHANGED <<appointments, payments, prescriptions, now, everCompleted, everConsult, paidOver, scenario, chatVars, form>>

(* CreatePaymentFind reviving a pending payment like a failed one *)
CreatePaymentFindRevivingPending(r) ==
  /\ r \in BagToSet(inflight) /\ r.op = "createPayment" /\ r.pc = "find"
  /\ LET e == existingPayment(r.appointmentId) IN
     IF e # 0 /\ payments[e].status = "completed"
       THEN /\ Finish(r)
            /\ Respond("createPayment", 400, r.appointmentId,
                       "Payment already completed for this appointment")
     ELSE IF e # 0 /\ payments[e].status \in {"pending", "failed", "cancelled"}
       THEN /\ Resume(r, [op |-> "createPayment", pc |-> "revive",
                          appointmentId |-> r.appointmentId, id |-> e,
                          seen |-> payments[e],
                          paymentMethod |-> r.paymentMethod,
                          paymentDetails |-> r.paymentDetails])
            /\ UNCHANGED lastResp
     ELSE /\ Resume(r, [r EXCEPT !.pc = "create"])
          /\ UNCHANGED lastResp
  /\ UNCHANGED <<appointments, payments, prescriptions, now, everCompleted, everConsult, paidOver, scenario, chatVars, form>>

(* Payment.findOne resolves: reject, or go on to revive or to insert *)
CreatePaymentFind(r) ==
  /\ r \in BagToSet(inflight) /\ r.op = "createPayment" /\ r.pc = "find"
  /\ LET e == existingPayment(r.appointmentId) IN
     IF e # 0 /\ payments[e].status = "completed"
       THEN /\ Finish(r)
            /\ Respond("createPayment", 400, r.appointmentId,
                       "Payment already completed for this appointment")
     ELSE IF e # 0 /\ payments[e].status = "pending"
       THEN /\ Finish(r)
            /\ Respond("createPayment", 400, r.appointmentId,
                       "Payment already exists for this appointment")
     ELSE IF e # 0 /\ payments[e].status \in {"failed", "cancelled"}
       THEN /\ Resume(r, [op |-> "createPayment", pc |-> "revive",
                          appointmentId |-> r.appointmentId, id |-> e,
                          seen |-> payments[e],
                          paymentMethod |-> r.paymentMethod,
                          paymentDetails |-> r.paymentDetails])
            /\ UNCHANGED lastResp
     ELSE /\ Resume(r, [r EXCEPT !.pc = "create"])
          /\ UNCHANGED lastResp
  /\ UNCHANGED <<appointments, payments, prescriptions, now, everCompleted, everConsult, paidOver, scenario, chatVars, form>>

(* CreatePaymentRevive storing a new document instead of the loaded one *)
CreatePaymentReviveAsNew(r, txn) ==
  /\ r \in BagToSet(inflight) /\ r.op = "createPayment" /\ r.pc = "revive"
  /\ LET doc == [r.seen EXCEPT !.paymentMethod = r.paymentMethod,
                               !.paymentDetails = r.paymentDetails,
                               !.transactionId = txn,
                               !.status = "pending",
                               !.notes = ""]
     IN IF paymentValid(doc) /\ transactionIdFree(txn, 0)
          THEN /\ payments' = Append(payments, doc)
               /\ Respond("createPayment", 200, r.appointmentId, "Payment updated successfully")
          ELSE /\ UNCHANGED payments
               /\ Respond("createPayment", 500, r.appointmentId, "Server error")
  /\ Finish(r)
  /\ UNCHANGED <<appointments, prescriptions, now, everCompleted, everConsult, paidOver, scenario, chatVars, form>>

(* existingPayment.save() of a failed or cancelled payment; txn is the     *)
(* value generateTransactionId() returned                                   *)
CreatePaymentRevive(r, txn) ==
  /\ r \in BagToSet(inflight) /\ r.op = "createPayment" /\ r.pc = "revive"
  /\ LET doc == [r.seen EXCEPT !.paymentMethod = r.paymentMethod,
                               !.paymentDetails = r.paymentDetails,
                               !.transactionId = txn,
                               !.status = "pending",
                               !.notes = ""]
         new == SaveDoc(payments[r.id], r.seen, doc)
     IN IF paymentValid(doc) /\ transactionIdFree(new.transactionId, r.id)
          THEN /\ payments' = [payments EXCEPT ![r.id] = new]
               /\ Respond("createPayment", 200, r.appointmentId, "Payment updated successfully")
          ELSE /\ UNCHANGED payments
               /\ Respond("createPayment", 500, r.appointmentId, "Server error")
  /\ Finish(r)
  /\ UNCHANGED <<appointments, prescriptions, now, everCompleted, everConsult, paidOver, scenario, chatVars, form>>

(* payment.save() of a new document *)
CreatePaymentSave(r, txn) ==
  /\ r \in BagToSet(inflight) /\ r.op = "createPayment" /\ r.pc = "create"
  /\ LET doc == [appointmentId |-> r.appointmentId, patientId |-> r.patientId,
                 doctorId |-> r.doctorId, amount |-> baseAmount,
                 paymentMethod |-> r.paymentMethod, transactionId |-> txn,
                 paymentDetails |-> r.paymentDetails, status |-> "pending",
                 notes |-> ""]
     IN IF paymentValid(doc) /\ transactionIdFree(txn, 0)
          THEN /\ payments' = Append(payments, doc)
               /\ Respond("createPayment", 201, r.appointmentId, "Payment created successfully")
          ELSE /\ UNCHANGED payments
               /\ Respond("createPayment", 500, r.appointmentId, "Server error")
  /\ Finish(r)
  /\ UNCHANGED <<appointments, prescriptions, now, everCompleted, everConsult, paidOver, scenario, chatVars, form>>

(* updatePaymentStatusChecks without the test of the caller *)
updatePaymentStatusChecksAnyCaller(caller, id, status) ==
  IF status \notin PaymentStatuses THEN Refuse(400, "Invalid status")
  ELSE IF ~Exists(payments, id) THEN Refuse(404, "Payment not found")
  ELSE GoOn

(* PUT /payments/:id/status up to the await of payment.save() *)
updatePaymentStatusChecks(caller, id, status) ==
  IF status \notin PaymentStatuses THEN Refuse(400, "Invalid status")
  ELSE IF ~Exists(payments, id) THEN Refuse(404, "Payment not found")
  ELSE IF ~(\/ payments[id].patientId = caller
            \/ payments[id].doctorId = caller
            \/ role(caller) = "admin")
    THEN Refuse(403, "Not authorized")
  ELSE GoOn

UpdatePaymentStatusBegin(caller, id, status, notes) ==
  /\ CanAccept
  /\ LET c == updatePaymentStatusChecks(caller, id, status) IN
     IF c # GoOn
       THEN /\ Respond("updatePaymentStatus", c.code, id, c.msg)
            /\ UNCHANGED inflight
       ELSE /\ Suspend([op |-> "updatePaymentStatus", pc |-> "save", id |-> id,
                        seen |-> payments[id],
                        doc |-> [payments[id] EXCEPT
                                   !.status = status,
                                   !.notes = IF notes # "" THEN notes ELSE @]])
            /\ UNCHANGED lastResp
  /\ UNCHANGED <<appointments, payments, prescriptions, now, everCompleted, everConsult, paidOver, scenario, chatVars, form>>

(* UpdatePaymentStatusSave taking the appointment back to confirmed when a  *)
(* completed payment is set to another status                              *)
UpdatePaymentStatusSaveReverting(r) ==
  /\ r \in BagToSet(inflight) /\ r.op = "updatePaymentStatus" /\ r.pc = "save"
  /\ payments' = [payments EXCEPT ![r.id] = SaveDoc(@, r.seen, r.doc)]
  /\ everCompleted' = IF payments'[r.id].status = "completed"
                        THEN everCompleted \cup {payments'[r.id].appointmentId}
                        ELSE everCompleted
  /\ appointments' =
       IF r.doc.status # "completed" /\ payments[r.id].status = "completed"
         THEN [appointments EXCEPT ![r.doc.appointmentId].status = "confirmed"]
         ELSE appointments
  /\ IF r.doc.status = "completed"
       THEN /\ Resume(r, [r EXCEPT !.pc = "appt"])
            /\ UNCHANGED lastResp
       ELSE /\ Finish(r)
            /\ Respond("updatePaymentStatus", 200, r.id, "Payment status updated successfully")
  /\ UNCHANGED <<prescriptions, now, everConsult, paidOver, scenario, chatVars, form>>

(* payment.save() of updatePaymentStatus; a completed payment goes on to   *)
(* the appointment update, any other status is answered                    *)
UpdatePaymentStatusSave(r) ==
  /\ r \in BagToSet(inflight) /\ r.op = "updatePaymentStatus" /\ r.pc = "save"
  /\ payments' = [payments EXCEPT ![r.id] = SaveDoc(@, r.seen, r.doc)]
  /\ everCompleted' = IF payments'[r.id].status = "completed"
                        THEN everCompleted \cup {payments'[r.id].appointmentId}
                        ELSE everCompleted
  /\ IF r.doc.status = "completed"
       THEN /\ Resume(r, [r EXCEPT !.pc = "appt"])
            /\ UNCHANGED lastResp
       ELSE /\ Finish(r)
            /\ Respond("updatePaymentStatus", 200, r.id, "Payment status updated successfully")
  /\ UNCHANGED <<appointments, prescriptions, now, everConsult, paidOver, scenario, chatVars, form>>

(* UpdatePaymentStatusAppt as a guarded transition: only a confirmed        *)
(* appointment becomes paid                                                *)
UpdatePaymentStatusApptGuarded(r) ==
  /\ r \in BagToSet(inflight) /\ r.op = "updatePaymentStatus" /\ r.pc = "appt"
  /\ appointments' =
       IF appointments[r.doc.appointmentId].status = "confirmed"
         THEN [appointments EXCEPT ![r.doc.appointmentId].status = "paid"]
         ELSE appointments
  /\ paidOver' = appointments[r.doc.appointmentId].status
  /\ Finish(r)
  /\ Respond("updatePaymentStatus", 200, r.id, "Payment status updated successfully")
  /\ UNCHANGED <<payments, prescriptions, now, everCompleted, everConsult, scenario, chatVars, form>>

(* Appointment.findByIdAndUpdate(payment.appointmentId, {status: 'paid'}) *)
UpdatePaymentStatusAppt(r) ==
  /\ r \in BagToSet(inflight) /\ r.op = "updatePaymentStatus" /\ r.pc = "appt"
  /\ appointments' = [appointments EXCEPT ![r.doc.appointmentId].status = "paid"]
  /\ paidOver' = appointments[r.doc.appointmentId].status
  /\ Finish(r)
  /\ Respond("updatePaymentStatus", 200, r.id, "Payment status updated successfully")
  /\ UNCHANGED <<payments, prescriptions, now, everCompleted, everConsult, scenario, chatVars, form>>

(* ============ prescriptionController: updatePrescription ============== *)

(* PUT /prescriptions/:id up to the await of prescription.save(); the     *)
(* route admits doctors only, the handler the prescription's doctor or an  *)
(* admin                                                                   *)
updatePrescriptionChecks(caller, id) ==
  IF ~authorizeRoles({"doctor"}, caller) THEN Refuse(403, "Access denied")
  ELSE IF ~Exists(prescriptions, id) THEN Refuse(404, "Prescription not found")
  ELSE IF ~(prescriptions[id].doctorId = caller \/ role(caller) = "admin")
    THEN Refuse(403, "Not authorized")
  ELSE GoOn

(* `if (field) prescription.field = field`: a truthy field overwrites; an  *)
(* array is truthy even when empty, so medications carries whether the     *)
(* body holds it                                                           *)
applyPatch(doc, patch) ==
  [doc EXCEPT
     !.diagnosis = IF patch.diagnosis # "" THEN patch.diagnosis ELSE @,
     !.medications = IF patch.medications.given THEN patch.medications.value ELSE @,
     !.instructions = IF patch.instructions # "" THEN patch.instructions ELSE @,
     !.followUpDate = IF patch.followUpDate # 0 THEN patch.followUpDate ELSE @,
     !.notes = IF patch.notes # "" THEN patch.notes ELSE @,
     !.status = IF patch.status # "" THEN patch.status ELSE @]

UpdatePrescriptionBegin(caller, id, patch) ==
  /\ CanAccept
  /\ LET c == updatePrescriptionChecks(caller, id) IN
     IF c # GoOn
       THEN /\ Respond("updatePrescription", c.code, id, c.msg)
            /\ UNCHANGED inflight
       ELSE /\ Suspend([op |-> "updatePrescription", pc |-> "save", id |-> id,
                        seen |-> prescriptions[id],
                        doc |-> applyPatch(prescriptions[id], patch)])
            /\ UNCHANGED lastResp
  /\ UNCHANGED <<appointments, payments, prescriptions, now, everCompleted, everConsult, paidOver, scenario, chatVars, form>>

(* UpdatePrescriptionSave deleting a prescription that is set completed *)
UpdatePrescriptionSaveRemovingCompleted(r) ==
  /\ r \in BagToSet(inflight) /\ r.op = "updatePrescription" /\ r.pc = "save"
  /\ IF prescriptionValid(r.doc)
       THEN /\ prescriptions' =
                 IF r.doc.status = "completed"
                   THEN [i \in 1..(Len(prescriptions) - 1) |->
                           IF i < r.id THEN prescriptions[i] ELSE prescriptions[i + 1]]
                   ELSE [prescriptions EXCEPT ![r.id] = SaveDoc(@, r.seen, r.doc)]
            /\ Respond("updatePrescription", 200, r.id, "Prescription updated successfully")
       ELSE /\ UNCHANGED prescriptions
            /\ Respond("updatePrescription", 500, r.id, "Server error")
  /\ Finish(r)
  /\ UNCHANGED <<appointments, payments, now, everCompleted, everConsult, paidOver, scenario, chatVars, form>>

(* prescription.save() of updatePrescription *)
UpdatePrescriptionSave(r) ==
  /\ r \in BagToSet(inflight) /\ r.op = "updatePrescription" /\ r.pc = "save"
  /\ IF prescriptionValid(r.doc)
       THEN /\ prescriptions' = [prescriptions EXCEPT ![r.id] = SaveDoc(@, r.seen, r.doc)]
            /\ Respond("updatePrescription", 200, r.id, "Prescription updated successfully")
       ELSE /\ UNCHANGED prescriptions
            /\ Respond("updatePrescription", 500, r.id, "Server error")
  /\ Finish(r)
  /\ UNCHANGED <<appointments, payments, now, everCompleted, everConsult, paidOver, scenario, chatVars, form>>

(* ============================ read handlers =========================== *)

(* res.json(document): a response that carries the document read *)
RespondDoc(op, id, doc) ==
  lastResp' = [op |-> op, code |-> 200, id |-> id, msg |-> "", body |-> doc]

(* GET /prescriptions/by-appointment/:appointmentId, at the moment         *)
(* Prescription.findOne resolves                                           *)
GetPrescriptionByAppointment(caller, appointmentId) ==
  /\ CanAccept
  /\ LET e == existingPrescription(appointmentId) IN
     IF e = 0
       THEN Respond("getPrescriptionByAppointment", 404, appointmentId,
                    "Prescription not found")
     ELSE IF /\ prescriptions[e].patientId # caller
             /\ prescriptions[e].doctorId # caller
             /\ role(caller) # "admin"
       THEN Respond("getPrescriptionByAppointment", 403, appointmentId, "Not authorized")
     ELSE RespondDoc("getPrescriptionByAppointment", e, prescriptions[e])
  /\ UNCHANGED <<appointments, payments, prescriptions, inflight, now,
                 everCompleted, everConsult, paidOver, scenario, chatVars, form>>

(* GetAppointmentById without the test of the caller *)
GetAppointmentByIdAnyCaller(caller, id) ==
  /\ CanAccept
  /\ IF ~Exists(appointments, id)
       THEN Respond("getAppointmentById", 404, id, "Appointment not found")
     ELSE RespondDoc("getAppointmentById", id, appointments[id])
  /\ UNCHANGED <<appointments, payments, prescriptions, inflight, now,
                 everCompleted, everConsult, paidOver, scenario, chatVars, form>>

(* GET /appointments/:id, at the moment Appointment.findById resolves *)
GetAppointmentById(caller, id) ==
  /\ CanAccept
  /\ IF ~Exists(appointments, id)
       THEN Respond("getAppointmentById", 404, id, "Appointment not found")
     ELSE IF ~(\/ appointments[id].patientId = caller
               \/ appointments[id].doctorId = caller
               \/ role(caller) = "admin")
       THEN Respond("getAppointmentById", 403, id, "Not authorized")
     ELSE RespondDoc("getAppointmentById", id, appointments[id])
  /\ UNCHANGED <<appointments, payments, prescriptions, inflight, now,
                 everCompleted, everConsult, paidOver, scenario, chatVars, form>>

(* ============================ index.js: sockets ======================= *)

(* what the socket handlers and the form leave alone *)
recordVars ==
  <<appointments, payments, prescriptions, now, everCompleted, everConsult,
    paidOver, scenario>>

SocketIds == 1..MaxSockets

(* io.on('connection'): a new socket; Socket.IO never reuses a socket id *)
Connection(s) ==
  /\ sockets[s].state = "idle"
  /\ \A t \in SocketIds : t < s => sockets[t].state # "idle"
  /\ sockets' = [sockets EXCEPT ![s].state = "open"]
  /\ UNCHANGED <<recordVars, inflight, lastResp, connectedUsers, messages, emitted, form>>

(* socket.emit(event) to the socket the handler runs on *)
SocketEmit(op, s, event) == Respond(op, 0, s, event)

(* socket.on('authenticate') up to `await User.findById`; jwt.verify throws *)
(* on a forged token, a good token names the user it was issued to         *)
AuthenticateBegin(s, token) ==
  /\ sockets[s].state = "open"
  /\ IF token = "forged"
       THEN /\ SocketEmit("authenticate", s, "auth_error")
            /\ UNCHANGED inflight
       ELSE /\ CanAccept
            /\ Suspend([op |-> "authenticate", pc |-> "find", socket |-> s,
                        userId |-> token])
            /\ UNCHANGED lastResp
  /\ UNCHANGED <<recordVars, sockets, connectedUsers, messages, emitted, form>>

(* User.findById resolved: `if (user)` registers the socket, whatever has   *)
(* happened to the socket since                                             *)
AuthenticateFound(r) ==
  /\ r \in BagToSet(inflight) /\ r.op = "authenticate" /\ r.pc = "find"
  /\ IF r.userId \in Users
       THEN /\ connectedUsers' = [connectedUsers EXCEPT ![r.userId] = r.socket]
            /\ sockets' = [sockets EXCEPT ![r.socket].userId = r.userId]
            /\ SocketEmit("authenticate", r.socket, "authenticated")
       ELSE UNCHANGED <<connectedUsers, sockets, lastResp>>
  /\ Finish(r)
  /\ UNCHANGED <<recordVars, messages, emitted, form>>

(* User.findById rejected: catch *)
AuthenticateFail(r) ==
  /\ r \in BagToSet(inflight) /\ r.op = "authenticate"
  /\ SocketEmit("authenticate", r.socket, "auth_error")
  /\ Finish(r)
  /\ UNCHANGED <<recordVars, sockets, connectedUsers, messages, emitted, form>>

(* socket.on('disconnect') *)
Disconnect(s) ==
  /\ sockets[s].state = "open"
  /\ sockets' = [sockets EXCEPT ![s].state = "closed"]
  /\ connectedUsers' =
       IF sockets[s].userId # ""
         THEN [connectedUsers EXCEPT ![sockets[s].userId] = 0]
         ELSE connectedUsers
  /\ UNCHANGED <<recordVars, inflight, lastResp, messages, emitted, form>>

(* connectedUsers.get(userId): 0 stands for undefined *)
connectedUsersGet(userId) ==
  IF userId \in DOMAIN connectedUsers THEN connectedUsers[userId] ELSE 0

(* socket.on('private_message') up to `await message.save()` *)
PrivateMessageBegin(s, receiverId, content) ==
  /\ sockets[s].state = "open"
  /\ CanAccept
  /\ Len(messages) + CountOf("private_message") < MaxMessages
  /\ Suspend([op |-> "private_message", pc |-> "save", socket |-> s, id |-> 0,
              doc |-> [senderId |-> sockets[s].userId, receiverId |-> receiverId,
                       content |-> content]])
  /\ UNCHANGED <<recordVars, lastResp, sockets, connectedUsers, messages, emitted, form>>

(* message.save() resolved *)
PrivateMessageSave(r) ==
  /\ r \in BagToSet(inflight) /\ r.op = "private_message" /\ r.pc = "save"
  /\ messages' = Append(messages, r.doc)
  /\ Resume(r, [r EXCEPT !.pc = "populate", !.id = Len(messages) + 1])
  /\ UNCHANGED <<recordVars, lastResp, sockets, connectedUsers, emitted, form>>

(* PrivateMessageDeliver looking the sender up in the registry *)
PrivateMessageDeliverToSender(r) ==
  /\ r \in BagToSet(inflight) /\ r.op = "private_message" /\ r.pc = "populate"
  /\ LET receiverSocketId == connectedUsersGet(r.doc.senderId) IN
       emitted' = IF receiverSocketId # 0
                    THEN Append(emitted, [event |-> "new_message",
                                          to |-> receiverSocketId, message |-> r.id])
                    ELSE emitted
  /\ Respond("private_message", 0, r.id, "message_sent")
  /\ Finish(r)
  /\ UNCHANGED <<recordVars, sockets, connectedUsers, messages, form>>

(* message.populate() resolved: look the receiver up, emit new_message to   *)
(* the socket found, confirm to the sender                                  *)
PrivateMessageDeliver(r) ==
  /\ r \in BagToSet(inflight) /\ r.op = "private_message" /\ r.pc = "populate"
  /\ LET receiverSocketId == connectedUsersGet(r.doc.receiverId) IN
       emitted' = IF receiverSocketId # 0
                    THEN Append(emitted, [event |-> "new_message",
                                          to |-> receiverSocketId, message |-> r.id])
                    ELSE emitted
  /\ Respond("private_message", 0, r.id, "message_sent")
  /\ Finish(r)
  /\ UNCHANGED <<recordVars, sockets, connectedUsers, messages, form>>

(* message.save() or message.populate() rejected: catch *)
PrivateMessageFail(r) ==
  /\ r \in BagToSet(inflight) /\ r.op = "private_message"
  /\ Respond("private_message", 0, r.id, "message_error")
  /\ Finish(r)
  /\ UNCHANGED <<recordVars, sockets, connectedUsers, messages, emitted, form>>

(* ========================= messageController.js ======================= *)

(* Message.find({$or: ...}).sort({timestamp: 1}): the ids of the messages   *)
(* between the two users, oldest first                                      *)
conversation(currentUserId, userId) ==
  SelectSeq([i \in 1..Len(messages) |-> i],
            LAMBDA i : \/ /\ messages[i].senderId = currentUserId
                          /\ messages[i].receiverId = userId
                       \/ /\ messages[i].senderId = userId
                          /\ messages[i].receiverId = currentUserId)

(* GET /messages/:userId, at the moment Message.find resolves *)
GetMessages(caller, userId) ==
  /\ CanAccept
  /\ IF userId \notin Users
       THEN Respond("getMessages", 404, 0, "User not found")
       ELSE RespondDoc("getMessages", 0, conversation(caller, userId))
  /\ UNCHANGED <<recordVars, inflight, sockets, connectedUsers, messages, emitted, form>>

(* ====================== create-prescription.tsx ======================= *)

(* a text is a sequence of characters; String.prototype.trim *)
RECURSIVE trimStart(_)
trimStart(t) == IF t # <<>> /\ Head(t) = " " THEN trimStart(Tail(t)) ELSE t
RECURSIVE trimEnd(_)
trimEnd(t) ==
  IF t # <<>> /\ t[Len(t)] = " " THEN trimEnd(SubSeq(t, 1, Len(t) - 1)) ELSE t
trim(t) == trimEnd(trimStart(t))

(* the row addMedication appends and the form starts with *)
blankMedication ==
  [name |-> <<>>, dosage |-> <<>>, frequency |-> <<>>, duration |-> <<>>,
   instructions |-> <<>>, quantity |-> <<>>]

(* the screen opened for a new prescription *)
blankForm ==
  [diagnosis |-> <<>>, medications |-> <<blankMedication>>, instructions |-> <<>>,
   followUpDate |-> <<>>, notes |-> <<>>, outcome |-> "editing", alert |-> "",
   sent |-> <<>>]

(* the screen is left once the prescription is sent *)
formOpen == form.outcome \in {"editing", "refused"}

(* what every edit does besides its own field: the alert is dismissed *)
edited(f) == [f EXCEPT !.outcome = "editing", !.alert = ""]

setDiagnosis(value) ==
  /\ formOpen
  /\ form' = edited([form EXCEPT !.diagnosis = value])
  /\ UNCHANGED <<recordVars, inflight, lastResp, chatVars>>

addMedication ==
  /\ formOpen
  /\ Len(form.medications) < MaxRows
  /\ form' = edited([form EXCEPT !.medications = Append(@, blankMedication)])
  /\ UNCHANGED <<recordVars, inflight, lastResp, chatVars>>

(* medications.filter((_, i) => i !== index) *)
RECURSIVE without(_, _)
without(meds, index) ==
  IF meds = <<>> THEN <<>>
  ELSE IF index = 1 THEN Tail(meds)
  ELSE <<Head(meds)>> \o without(Tail(meds), index - 1)

removeMedication(index) ==
  /\ formOpen
  /\ index \in 1..Len(form.medications)
  /\ form' = edited(IF Len(form.medications) > 1
                      THEN [form EXCEPT !.medications = without(@, index)]
                      ELSE form)
  /\ UNCHANGED <<recordVars, inflight, lastResp, chatVars>>

updateMedication(index, field, value) ==
  /\ formOpen
  /\ index \in 1..Len(form.medications)
  /\ form' = edited([form EXCEPT !.medications[index][field] = value])
  /\ UNCHANGED <<recordVars, inflight, lastResp, chatVars>>

(* the predicate of medications.filter in validateForm and in               *)
(* handleCreatePrescription: every trimmed field is a non-empty string      *)
medicationFilled(med) ==
  /\ trim(med.name) # <<>>
  /\ trim(med.dosage) # <<>>
  /\ trim(med.frequency) # <<>>
  /\ trim(med.duration) # <<>>

RECURSIVE validMedications(_)
validMedications(meds) ==
  IF meds = <<>> THEN <<>>
  ELSE IF medicationFilled(Head(meds))
    THEN <<Head(meds)>> \o validMedications(Tail(meds))
  ELSE validMedications(Tail(meds))

(* validateForm: the alert it raises, "" when it returns true *)
validateForm(f) ==
  IF trim(f.diagnosis) = <<>> THEN "Please enter a diagnosis"
  ELSE IF Len(validMedications(f.medications)) = 0
    THEN "Please add at least one medication"
  ELSE ""

(* handleCreatePrescription sending every row of the form *)
handleCreatePrescriptionUnfiltered ==
  /\ formOpen
  /\ IF validateForm(form) # ""
       THEN form' = [form EXCEPT !.outcome = "refused", !.alert = validateForm(form)]
       ELSE form' = [form EXCEPT
                       !.outcome = "sent",
                       !.alert = "",
                       !.sent = <<[diagnosis |-> trim(form.diagnosis),
                                   medications |-> form.medications,
                                   instructions |-> trim(form.instructions),
                                   followUpDate |-> trim(form.followUpDate),
                                   notes |-> trim(form.notes)]>>]
  /\ UNCHANGED <<recordVars, inflight, lastResp, chatVars>>

(* handleCreatePrescription up to the call of prescriptionsAPI: the         *)
(* prescriptionData it sends, or the alert of validateForm                  *)
handleCreatePrescription ==
  /\ formOpen
  /\ IF validateForm(form) # ""
       THEN form' = [form EXCEPT !.outcome = "refused", !.alert = validateForm(form)]
       ELSE form' = [form EXCEPT
                       !.outcome = "sent",
                       !.alert = "",
                       !.sent = <<[diagnosis |-> trim(form.diagnosis),
                                   medications |-> validMedications(form.medications),
                                   instructions |-> trim(form.instructions),
                                   followUpDate |-> trim(form.followUpDate),
                                   notes |-> trim(form.notes)]>>]
  /\ UNCHANGED <<recordVars, inflight, lastResp, chatVars>>

(* an awaited store call rejects: the handler's catch answers 500 *)
StoreFail(r) ==
  /\ r \in BagToSet(inflight)
  /\ r.op \notin {"authenticate", "private_message"}
  /\ Finish(r)
  /\ Respond(r.op, 500, 0, "Server error")
  /\ UNCHANGED <<appointments, payments, prescriptions, now, everCompleted, everConsult, paidOver, scenario, chatVars, form>>

(* the server clock advances *)
Tick ==
  /\ now < MaxNow
  /\ now' = now + Window
  /\ UNCHANGED <<appointments, payments, prescriptions, inflight, lastResp,
                 everCompleted, everConsult, paidOver, scenario, chatVars, form>>

(* ------------------------- request inputs ----------------------------- *)
AppointmentIds == 1..MaxAppts
PaymentIds == 1..MaxPayments
DateTimes == {30, 60, 91}
DoctorInputs == Doctors \cup {"p2"}
AppointmentStatusInputs == AppointmentStatuses \cup {"archived"}
PaymentStatusInputs == PaymentStatuses \cup {"refunded"}
MethodInputs == {"telebirr", "cash"}
DetailInputs == {"0911"}
NoteInputs == {"", "paid by user"}
MaxTxn == 2
TransactionIds == 1..MaxTxn
Paracetamol ==
  [name |-> "Paracetamol", dosage |-> "500mg", frequency |-> "2x/day",
   duration |-> "5 days"]
BodyInputs ==
  {[diagnosis |-> "Flu", medications |-> <<Paracetamol>>, instructions |-> "",
    followUpDate |-> 0, notes |-> ""]}
NoPatch ==
  [diagnosis |-> "", medications |-> [given |-> FALSE, value |-> <<>>],
   instructions |-> "", followUpDate |-> 0, notes |-> "", status |-> ""]
PatchInputs ==
  {[NoPatch EXCEPT !.diagnosis = "Cold"],
   [NoPatch EXCEPT !.status = "completed"],
   [NoPatch EXCEPT !.status = "dispensed"]}
PrescriptionIds == 1..MaxPrescriptions
Ibuprofen ==
  [name |-> "Ibuprofen", dosage |-> "200mg", frequency |-> "3x/day",
   duration |-> "3 days"]
FluBody ==
  [diagnosis |-> "Flu", medications |-> <<Paracetamol>>, instructions |-> "",
   followUpDate |-> 0, notes |-> ""]
BodyInputsAll ==
  BodyInputs \cup
  {[FluBody EXCEPT !.medications = <<>>],
   [FluBody EXCEPT !.diagnosis = ""],
   [FluBody EXCEPT !.medications = <<[Paracetamol EXCEPT !.dosage = ""]>>],
   [FluBody EXCEPT !.medications = <<Paracetamol, Ibuprofen>>]}
PatchInputsAll ==
  PatchInputs \cup
  {[NoPatch EXCEPT !.medications = [given |-> TRUE, value |-> <<>>]],
   [NoPatch EXCEPT !.medications = [given |-> TRUE, value |-> <<Ibuprofen>>]],
   [NoPatch EXCEPT !.notes = "rest"]}
ChatUsers == {"p1", "d1"}
TokenInputs == ChatUsers \cup {"gone", "forged"}
ContentInputs == {"hi"}
TextInputs == {<<>>, <<" ">>, <<" ", "a">>}
QuantityInputs == {<<"1">>}
RequiredFields == {"name", "dosage", "frequency", "duration"}

(* ------------------------- the whole server --------------------------- *)
Next ==
  \/ \E c \in Users, d \in DoctorInputs, t \in DateTimes : BookBegin(c, d, t)
  \/ \E c \in Users, a \in AppointmentIds, s \in AppointmentStatusInputs :
       UpdateStatusBegin(c, a, s)
  \/ \E c \in Users, a \in AppointmentIds : StartConsultationBegin(c, a)
  \/ \E c \in Users, a \in AppointmentIds, m \in MethodInputs, d \in DetailInputs :
       CreatePaymentBegin(c, a, m, d)
  \/ \E c \in Users, p \in PaymentIds, s \in PaymentStatusInputs, n \in NoteInputs :
       UpdatePaymentStatusBegin(c, p, s, n)
  \/ \E c \in Users, a \in AppointmentIds, b \in BodyInputs :
       CreatePrescriptionBegin(c, a, b)
  \/ \E r \in BagToSet(inflight) : BookFind(r)
  \/ \E r \in BagToSet(inflight) : BookSave(r)
  \/ \E r \in BagToSet(inflight) : UpdateStatusSave(r)
  \/ \E r \in BagToSet(inflight) : StartConsultationSave(r)
  \/ \E r \in BagToSet(inflight) : CreatePaymentFind(r)
  \/ \E r \in BagToSet(inflight), txn \in TransactionIds : CreatePaymentRevive(r, txn)
  \/ \E r \in BagToSet(inflight), txn \in TransactionIds : CreatePaymentSave(r, txn)
  \/ \E r \in BagToSet(inflight) : UpdatePaymentStatusSave(r)
  \/ \E r \in BagToSet(inflight) : UpdatePaymentStatusAppt(r)
  \/ \E r \in BagToSet(inflight) : CreatePrescriptionFind(r)
  \/ \E r \in BagToSet(inflight) : CreatePrescriptionSave(r)
  \/ \E c \in Users, p \in PrescriptionIds, b \in PatchInputs :
       UpdatePrescriptionBegin(c, p, b)
  \/ \E r \in BagToSet(inflight) : UpdatePrescriptionSave(r)
  \/ \E c \in Users, a \in AppointmentIds : GetPrescriptionByAppointment(c, a)
  \/ \E c \in Users, a \in AppointmentIds : GetAppointmentById(c, a)
  \/ \E r \in BagToSet(inflight) : StoreFail(r)
  \/ Tick
  \/ \E s \in SocketIds : Connection(s)
  \/ \E s \in SocketIds, t \in TokenInputs : AuthenticateBegin(s, t)
  \/ \E r \in BagToSet(inflight) : AuthenticateFound(r)
  \/ \E r \in BagToSet(inflight) : AuthenticateFail(r)
  \/ \E s \in SocketIds : Disconnect(s)
  \/ \E s \in SocketIds, u \in Users, c \in ContentInputs : PrivateMessageBegin(s, u, c)
  \/ \E r \in BagToSet(inflight) : PrivateMessageSave(r)
  \/ \E r \in BagToSet(inflight) : PrivateMessageDeliver(r)
  \/ \E r \in BagToSet(inflight) : PrivateMessageFail(r)
  \/ \E c \in Users, u \in Users \cup {"gone"} : GetMessages(c, u)

Spec == Init /\ [][Next]_vars

(***************************************************************************)
(* The specifications TLC explores.  Each is the server under the         *)
(* requests of one part of the lifecycle, with its own load.               *)
(***************************************************************************)

(* ---- booking: two appointments, two doctors, the clock; one request ---- *)
(* ---- at a time                                                      ---- *)
Bookers == {"p1", "d1", "adm"}

InitBooking ==
  /\ Constructed
  /\ scenario = [overlap |-> 1, appointments |-> MaxAppts]

NextBooking ==
  \/ \E c \in Bookers, d \in DoctorInputs, t \in DateTimes : BookBegin(c, d, t)
  \/ \E c \in Doctors \cup {"p1"}, a \in AppointmentIds, s \in AppointmentStatusInputs :
       UpdateStatusBegin(c, a, s)
  \/ \E c \in Doctors, a \in AppointmentIds : StartConsultationBegin(c, a)
  \/ \E r \in BagToSet(inflight) : BookFind(r)
  \/ \E r \in BagToSet(inflight) : BookSave(r)
  \/ \E r \in BagToSet(inflight) : UpdateStatusSave(r)
  \/ \E r \in BagToSet(inflight) : StartConsultationSave(r)
  \/ \E r \in BagToSet(inflight) : StoreFail(r)
  \/ Tick

SpecBooking == InitBooking /\ [][NextBooking]_vars

(* ---- payment: one appointment through its whole lifecycle, one ------- *)
(* ---- request at a time                                          ------- *)
InitPayment ==
  /\ Constructed
  /\ scenario = [overlap |-> 1, appointments |-> 1]

NextPayment ==
  \/ \E c \in Users : BookBegin(c, "d1", 60)
  \/ \E c \in Users, a \in AppointmentIds, s \in AppointmentStatusInputs :
       UpdateStatusBegin(c, a, s)
  \/ \E c \in Users, a \in AppointmentIds : StartConsultationBegin(c, a)
  \/ \E c \in Users, a \in AppointmentIds, m \in MethodInputs, d \in DetailInputs :
       CreatePaymentBegin(c, a, m, d)
  \/ \E c \in Users, p \in PaymentIds, s \in PaymentStatusInputs, n \in NoteInputs :
       UpdatePaymentStatusBegin(c, p, s, n)
  \/ \E r \in BagToSet(inflight) : BookFind(r)
  \/ \E r \in BagToSet(inflight) : BookSave(r)
  \/ \E r \in BagToSet(inflight) : UpdateStatusSave(r)
  \/ \E r \in BagToSet(inflight) : StartConsultationSave(r)
  \/ \E r \in BagToSet(inflight) : CreatePaymentFind(r)
  \/ \E r \in BagToSet(inflight), txn \in TransactionIds : CreatePaymentRevive(r, txn)
  \/ \E r \in BagToSet(inflight), txn \in TransactionIds : CreatePaymentSave(r, txn)
  \/ \E r \in BagToSet(inflight) : UpdatePaymentStatusSave(r)
  \/ \E r \in BagToSet(inflight) : UpdatePaymentStatusAppt(r)
  \/ \E r \in BagToSet(inflight) : StoreFail(r)

SpecPayment == InitPayment /\ [][NextPayment]_vars

(* ---- payment, overlapping requests: one appointment, the requests ---- *)
(* ---- of its patient and its doctor                                ---- *)
InitPaymentRace ==
  /\ Constructed
  /\ scenario = [overlap |-> MaxInflight, appointments |-> 1]

NextPaymentRace ==
  \/ BookBegin("p1", "d1", 60)
  \/ \E s \in {"confirmed", "cancelled"} : UpdateStatusBegin("d1", 1, s)
  \/ StartConsultationBegin("d1", 1)
  \/ CreatePaymentBegin("p1", 1, "telebirr", "0911")
  \/ \E p \in PaymentIds, s \in {"completed", "failed"} :
       UpdatePaymentStatusBegin("p1", p, s, "")
  \/ \E r \in BagToSet(inflight) : BookFind(r)
  \/ \E r \in BagToSet(inflight) : BookSave(r)
  \/ \E r \in BagToSet(inflight) : UpdateStatusSave(r)
  \/ \E r \in BagToSet(inflight) : StartConsultationSave(r)
  \/ \E r \in BagToSet(inflight) : CreatePaymentFind(r)
  \/ \E r \in BagToSet(inflight), txn \in TransactionIds : CreatePaymentRevive(r, txn)
  \/ \E r \in BagToSet(inflight), txn \in TransactionIds : CreatePaymentSave(r, txn)
  \/ \E r \in BagToSet(inflight) : UpdatePaymentStatusSave(r)
  \/ \E r \in BagToSet(inflight) : UpdatePaymentStatusAppt(r)
  \/ \E r \in BagToSet(inflight) : StoreFail(r)

SpecPaymentRace == InitPaymentRace /\ [][NextPaymentRace]_vars

(* ---- prescription: one appointment, overlapping requests -------------- *)
InitPrescription ==
  /\ Constructed
  /\ scenario = [overlap |-> MaxInflight, appointments |-> 1]

NextPrescription ==
  \/ \E c \in Users : BookBegin(c, "d1", 60)
  \/ \E c \in Users, a \in AppointmentIds, s \in AppointmentStatusInputs :
       UpdateStatusBegin(c, a, s)
  \/ \E c \in Users, a \in AppointmentIds : StartConsultationBegin(c, a)
  \/ \E c \in Users, a \in AppointmentIds, b \in BodyInputs :
       CreatePrescriptionBegin(c, a, b)
  \/ \E r \in BagToSet(inflight) : BookFind(r)
  \/ \E r \in BagToSet(inflight) : BookSave(r)
  \/ \E r \in BagToSet(inflight) : UpdateStatusSave(r)
  \/ \E r \in BagToSet(inflight) : StartConsultationSave(r)
  \/ \E r \in BagToSet(inflight) : CreatePrescriptionFind(r)
  \/ \E r \in BagToSet(inflight) : CreatePrescriptionSave(r)
  \/ \E r \in BagToSet(inflight) : StoreFail(r)

SpecPrescription == InitPrescription /\ [][NextPrescription]_vars

(* ---- schedule: bookings of every caller against the clock, with ------ *)
(* ---- cancellations by the doctors; requests overlap              ------ *)
InitSchedule ==
  /\ Constructed
  /\ scenario = [overlap |-> MaxInflight, appointments |-> MaxAppts]

NextSchedule ==
  \/ \E c \in Users, d \in DoctorInputs, t \in DateTimes : BookBegin(c, d, t)
  \/ \E c \in Doctors, a \in AppointmentIds : UpdateStatusBegin(c, a, "cancelled")
  \/ \E r \in BagToSet(inflight) : BookFind(r)
  \/ \E r \in BagToSet(inflight) : BookSave(r)
  \/ \E r \in BagToSet(inflight) : UpdateStatusSave(r)
  \/ \E r \in BagToSet(inflight) : StoreFail(r)
  \/ Tick

SpecSchedule == InitSchedule /\ [][NextSchedule]_vars

(* ---- status: one appointment of a patient with either doctor, status -- *)
(* ---- updates and reads by every user; one request at a time         --- *)
InitStatus ==
  /\ Constructed
  /\ scenario = [overlap |-> 1, appointments |-> 1]

NextStatus ==
  \/ \E d \in Doctors, t \in DateTimes : BookBegin("p1", d, t)
  \/ \E c \in Users, a \in AppointmentIds, s \in AppointmentStatusInputs :
       UpdateStatusBegin(c, a, s)
  \/ \E c \in Users, a \in AppointmentIds : GetAppointmentById(c, a)
  \/ \E r \in BagToSet(inflight) : BookFind(r)
  \/ \E r \in BagToSet(inflight) : BookSave(r)
  \/ \E r \in BagToSet(inflight) : UpdateStatusSave(r)
  \/ \E r \in BagToSet(inflight) : StoreFail(r)

SpecStatus == InitStatus /\ [][NextStatus]_vars

(* ---- payment parties: one appointment of p1 with d1, its payments ---- *)
(* ---- created by p1 and their status set by every user; one request ---- *)
(* ---- at a time                                                     ---- *)
InitPaymentParties ==
  /\ Constructed
  /\ scenario = [overlap |-> 1, appointments |-> 1]

NextPaymentParties ==
  \/ BookBegin("p1", "d1", 60)
  \/ \E s \in {"confirmed", "cancelled"} : UpdateStatusBegin("d1", 1, s)
  \/ \E m \in MethodInputs, d \in DetailInputs : CreatePaymentBegin("p1", 1, m, d)
  \/ \E c \in Users, p \in PaymentIds, s \in PaymentStatusInputs, n \in NoteInputs :
       UpdatePaymentStatusBegin(c, p, s, n)
  \/ \E r \in BagToSet(inflight) : BookFind(r)
  \/ \E r \in BagToSet(inflight) : BookSave(r)
  \/ \E r \in BagToSet(inflight) : UpdateStatusSave(r)
  \/ \E r \in BagToSet(inflight) : CreatePaymentFind(r)
  \/ \E r \in BagToSet(inflight), txn \in TransactionIds : CreatePaymentRevive(r, txn)
  \/ \E r \in BagToSet(inflight), txn \in TransactionIds : CreatePaymentSave(r, txn)
  \/ \E r \in BagToSet(inflight) : UpdatePaymentStatusSave(r)
  \/ \E r \in BagToSet(inflight) : UpdatePaymentStatusAppt(r)
  \/ \E r \in BagToSet(inflight) : StoreFail(r)

SpecPaymentParties == InitPaymentParties /\ [][NextPaymentParties]_vars

(* ---- records: one appointment of p1 with d1 taken through payment and - *)
(* ---- consultation by its owners; prescriptions written and the      --- *)
(* ---- records read by every user; one request at a time              --- *)
InitRecords ==
  /\ Constructed
  /\ scenario = [overlap |-> 1, appointments |-> 1]

NextRecords ==
  \/ BookBegin("p1", "d1", 60)
  \/ \E s \in {"confirmed", "completed", "cancelled"} : UpdateStatusBegin("d1", 1, s)
  \/ CreatePaymentBegin("p1", 1, "telebirr", "0911")
  \/ \E p \in PaymentIds, s \in {"completed", "failed"} :
       UpdatePaymentStatusBegin("p1", p, s, "")
  \/ StartConsultationBegin("d1", 1)
  \/ \E b \in BodyInputs : CreatePrescriptionBegin("d1", 1, b)
  \/ \E c \in Users, p \in PrescriptionIds, b \in PatchInputs :
       UpdatePrescriptionBegin(c, p, b)
  \/ \E c \in Users, a \in AppointmentIds : GetPrescriptionByAppointment(c, a)
  \/ \E c \in Users, a \in AppointmentIds : GetAppointmentById(c, a)
  \/ \E r \in BagToSet(inflight) : BookFind(r)
  \/ \E r \in BagToSet(inflight) : BookSave(r)
  \/ \E r \in BagToSet(inflight) : UpdateStatusSave(r)
  \/ \E r \in BagToSet(inflight) : CreatePaymentFind(r)
  \/ \E r \in BagToSet(inflight), txn \in TransactionIds : CreatePaymentRevive(r, txn)
  \/ \E r \in BagToSet(inflight), txn \in TransactionIds : CreatePaymentSave(r, txn)
  \/ \E r \in BagToSet(inflight) : UpdatePaymentStatusSave(r)
  \/ \E r \in BagToSet(inflight) : UpdatePaymentStatusAppt(r)
  \/ \E r \in BagToSet(inflight) : StartConsultationSave(r)
  \/ \E r \in BagToSet(inflight) : CreatePrescriptionFind(r)
  \/ \E r \in BagToSet(inflight) : CreatePrescriptionSave(r)
  \/ \E r \in BagToSet(inflight) : UpdatePrescriptionSave(r)
  \/ \E r \in BagToSet(inflight) : StoreFail(r)

SpecRecords == InitRecords /\ [][NextRecords]_vars

(* ---- sockets: two sockets, every token; authentications overlap ------- *)
(* ---- each other and the disconnections                            ------- *)
InitSockets ==
  /\ Constructed
  /\ scenario = [overlap |-> 2, appointments |-> 0]

NextSockets ==
  \/ \E s \in SocketIds : Connection(s)
  \/ \E s \in SocketIds, t \in TokenInputs : AuthenticateBegin(s, t)
  \/ \E r \in BagToSet(inflight) : AuthenticateFound(r)
  \/ \E r \in BagToSet(inflight) : AuthenticateFail(r)
  \/ \E s \in SocketIds : Disconnect(s)

SpecSockets == InitSockets /\ [][NextSockets]_vars

(* ---- chat: the socket of a patient and the socket of a doctor, their --- *)
(* ---- messages and their reads; handlers overlap                     --- *)
InitChat ==
  /\ Constructed
  /\ scenario = [overlap |-> 2, appointments |-> 0]

NextChat ==
  \/ \E s \in SocketIds : Connection(s)
  \/ AuthenticateBegin(1, "p1")
  \/ AuthenticateBegin(2, "d1")
  \/ \E r \in BagToSet(inflight) : AuthenticateFound(r)
  \/ \E s \in SocketIds : Disconnect(s)
  \/ \E s \in SocketIds, u \in ChatUsers, c \in ContentInputs :
       PrivateMessageBegin(s, u, c)
  \/ \E r \in BagToSet(inflight) : PrivateMessageSave(r)
  \/ \E r \in BagToSet(inflight) : PrivateMessageDeliver(r)
  \/ \E r \in BagToSet(inflight) : PrivateMessageFail(r)
  \/ \E c \in ChatUsers, u \in ChatUsers \cup {"gone"} : GetMessages(c, u)

SpecChat == InitChat /\ [][NextChat]_vars

(* ---- form: the doctor fills the prescription form and presses save ----- *)
InitForm ==
  /\ appointments = <<>>
  /\ payments = <<>>
  /\ prescriptions = <<>>
  /\ inflight = EmptyBag
  /\ lastResp = NoResp
  /\ now = 0
  /\ everCompleted = {}
  /\ everConsult = {}
  /\ paidOver = "none"
  /\ sockets = [s \in 1..MaxSockets |-> [state |-> "idle", userId |-> ""]]
  /\ connectedUsers = [u \in Users |-> 0]
  /\ messages = <<>>
  /\ emitted = <<>>
  /\ scenario = [overlap |-> 0, appointments |-> 0]
  /\ form = blankForm

NextForm ==
  \/ \E v \in TextInputs : setDiagnosis(v)
  \/ addMedication
  \/ \E i \in 1..MaxRows : removeMedication(i)
  \/ \E i \in 1..MaxRows, f \in RequiredFields, v \in TextInputs :
       updateMedication(i, f, v)
  \/ \E i \in 1..MaxRows, v \in QuantityInputs : updateMedication(i, "quantity", v)
  \/ handleCreatePrescription

SpecForm == InitForm /\ [][NextForm]_vars

(* ---- owners: two appointments of different patients and doctors; ------ *)
(* ---- payments and prescriptions asked for by every patient and doctor -- *)
(* ---- on either appointment; one request at a time                    --- *)
InitOwners ==
  /\ Constructed
  /\ scenario = [overlap |-> 1, appointments |-> MaxAppts]

NextOwners ==
  \/ \E c \in Patients, d \in Doctors : BookBegin(c, d, 60)
  \/ \E c \in Doctors, a \in AppointmentIds, s \in {"confirmed", "consultation"} :
       UpdateStatusBegin(c, a, s)
  \/ \E c \in Patients \cup Doctors, a \in AppointmentIds :
       CreatePaymentBegin(c, a, "telebirr", "0911")
  \/ \E c \in Patients, p \in PaymentIds : UpdatePaymentStatusBegin(c, p, "failed", "")
  \/ \E c \in Patients \cup Doctors, a \in AppointmentIds, b \in BodyInputs :
       CreatePrescriptionBegin(c, a, b)
  \/ \E r \in BagToSet(inflight) : BookFind(r)
  \/ \E r \in BagToSet(inflight) : BookSave(r)
  \/ \E r \in BagToSet(inflight) : UpdateStatusSave(r)
  \/ \E r \in BagToSet(inflight) : CreatePaymentFind(r)
  \/ \E r \in BagToSet(inflight), txn \in TransactionIds : CreatePaymentRevive(r, txn)
  \/ \E r \in BagToSet(inflight), txn \in TransactionIds : CreatePaymentSave(r, txn)
  \/ \E r \in BagToSet(inflight) : UpdatePaymentStatusSave(r)
  \/ \E r \in BagToSet(inflight) : CreatePrescriptionFind(r)
  \/ \E r \in BagToSet(inflight) : CreatePrescriptionSave(r)

SpecOwners == InitOwners /\ [][NextOwners]_vars

(* ---- prescription bodies: one appointment of p1 with d1 in ------------ *)
(* ---- consultation; the doctors send every request body to              *)
(* ---- createPrescription and updatePrescription; one request at a time -- *)
InitPrescriptionBodies ==
  /\ Constructed
  /\ scenario = [overlap |-> 1, appointments |-> 1]

NextPrescriptionBodies ==
  \/ BookBegin("p1", "d1", 60)
  \/ \E s \in {"consultation", "completed"} : UpdateStatusBegin("d1", 1, s)
  \/ \E c \in Doctors, b \in BodyInputsAll : CreatePrescriptionBegin(c, 1, b)
  \/ \E c \in Doctors, p \in PrescriptionIds, b \in PatchInputsAll :
       UpdatePrescriptionBegin(c, p, b)
  \/ \E r \in BagToSet(inflight) : BookFind(r)
  \/ \E r \in BagToSet(inflight) : BookSave(r)
  \/ \E r \in BagToSet(inflight) : UpdateStatusSave(r)
  \/ \E r \in BagToSet(inflight) : CreatePrescriptionFind(r)
  \/ \E r \in BagToSet(inflight) : CreatePrescriptionSave(r)
  \/ \E r \in BagToSet(inflight) : UpdatePrescriptionSave(r)

SpecPrescriptionBodies == InitPrescriptionBodies /\ [][NextPrescriptionBodies]_vars

(* ---- lifecycle: the clients follow the scenario book, confirm, pay, --- *)
(* ---- complete the payment, start the consultation, prescribe, read; --- *)
(* ---- each sends its request once the step before it is answered    --- *)
InitLifecycle ==
  /\ Constructed
  /\ scenario = [overlap |-> 1, appointments |-> 1]

NextLifecycle ==
  \/ \E p \in Patients, d \in Doctors, t \in DateTimes : BookBegin(p, d, t)
  \/ /\ appointments # <<>> /\ appointments[1].status = "pending"
     /\ UpdateStatusBegin(appointments[1].doctorId, 1, "confirmed")
  \/ /\ appointments # <<>> /\ appointments[1].status = "confirmed"
     /\ payments = <<>>
     /\ \E d \in DetailInputs :
          CreatePaymentBegin(appointments[1].patientId, 1, "telebirr", d)
  \/ /\ payments # <<>> /\ payments[1].status = "pending"
     /\ \E c \in {payments[1].patientId, "adm"}, n \in NoteInputs :
          UpdatePaymentStatusBegin(c, 1, "completed", n)
  \/ /\ appointments # <<>> /\ appointments[1].status = "paid"
     /\ StartConsultationBegin(appointments[1].doctorId, 1)
  \/ /\ appointments # <<>> /\ appointments[1].status = "consultation"
     /\ prescriptions = <<>>
     /\ \E b \in BodyInputs : CreatePrescriptionBegin(appointments[1].doctorId, 1, b)
  \/ /\ prescriptions # <<>>
     /\ \E c \in {appointments[1].patientId, appointments[1].doctorId, "adm"} :
          GetPrescriptionByAppointment(c, 1)
  \/ \E r \in BagToSet(inflight) : BookFind(r)
  \/ \E r \in BagToSet(inflight) : BookSave(r)
  \/ \E r \in BagToSet(inflight) : UpdateStatusSave(r)
  \/ \E r \in BagToSet(inflight) : CreatePaymentFind(r)
  \/ \E r \in BagToSet(inflight), txn \in TransactionIds : CreatePaymentSave(r, txn)
  \/ \E r \in BagToSet(inflight) : UpdatePaymentStatusSave(r)
  \/ \E r \in BagToSet(inflight) : UpdatePaymentStatusAppt(r)
  \/ \E r \in BagToSet(inflight) : StartConsultationSave(r)
  \/ \E r \in BagToSet(inflight) : CreatePrescriptionFind(r)
  \/ \E r \in BagToSet(inflight) : CreatePrescriptionSave(r)

SpecLifecycle == InitLifecycle /\ [][NextLifecycle]_vars

(***************************************************************************)
(*                              Properties                                 *)
(***************************************************************************)
Resp(op, code, id, msg) == [op |-> op, code |-> code, id |-> id, msg |-> msg]

(* C1: no doctor has two appointments that are both not cancelled and     *)
(* whose dateTimes are at most 30 minutes apart.                           *)
C1_NoOverlappingAppointments ==
  \A i, j \in 1..Len(appointments) :
    (/\ i # j
     /\ appointments[i].doctorId = appointments[j].doctorId
     /\ appointments[i].status # "cancelled"
     /\ appointments[j].status # "cancelled")
    => Abs(appointments[i].dateTime - appointments[j].dateTime) > Window

(* the transition graph of the appointment status *)
TransitionGraph ==
  {<<"pending", "confirmed">>, <<"pending", "cancelled">>,
   <<"confirmed", "cancelled">>, <<"confirmed", "paid">>,
   <<"confirmed", "completed">>, <<"paid", "consultation">>,
   <<"consultation", "completed">>}

(* C2: every change of an appointment's status, by whatever operation,    *)
(* follows an edge of the transition graph.                                *)
C2_StatusFollowsGraph ==
  [][\A i \in 1..Len(appointments) :
       appointments'[i].status # appointments[i].status
       => <<appointments[i].status, appointments'[i].status>> \in TransitionGraph]_vars

(* C3: when updatePaymentStatus with newStatus = completed has just        *)
(* answered success (no other request has started since), the appointment  *)
(* of the payment reads paid, whatever its status was before the call.     *)
C3_CompletedPaymentForcesPaid ==
  \A p \in 1..Len(payments) :
    (/\ lastResp = Resp("updatePaymentStatus", 200, p, "Payment status updated successfully")
     /\ inflight = EmptyBag
     /\ payments[p].status = "completed")
    => appointments[payments[p].appointmentId].status = "paid"

(* C3 witness: a completed payment has just turned a cancelled appointment *)
(* into a paid one.                                                        *)
C3_Witness ==
  \E p \in 1..Len(payments) :
    /\ lastResp = Resp("updatePaymentStatus", 200, p, "Payment status updated successfully")
    /\ inflight = EmptyBag
    /\ payments[p].status = "completed"
    /\ paidOver = "cancelled"
    /\ appointments[payments[p].appointmentId].status = "paid"

(* C4: the payment becoming completed and its appointment becoming paid   *)
(* are one atomic step: no state lies between the two writes of            *)
(* updatePaymentStatus, with the payment stored completed by the call and  *)
(* the appointment not yet paid.                                           *)
C4_CompletedAndPaidAtomic ==
  \A r \in BagToSet(inflight) :
    ~(/\ r.op = "updatePaymentStatus"
      /\ r.pc = "appt"
      /\ payments[r.id].status = "completed"
      /\ appointments[r.doc.appointmentId].status # "paid")

(* C5: every appointment has at most one payment whose status is pending  *)
(* or completed, also when createPayment requests overlap.                 *)
C5_OneActivePaymentPerAppointment ==
  \A a \in 1..Len(appointments) :
    Cardinality({p \in 1..Len(payments) :
                   /\ payments[p].appointmentId = a
                   /\ payments[p].status \in {"pending", "completed"}}) <= 1

(* C6: createPayment by the owning patient on an appointment that is not  *)
(* confirmed answers 400 "Appointment must be confirmed before payment",   *)
(* and neither inserts a payment nor goes on to revive one.                *)
C6_CreatePaymentNeedsConfirmed ==
  [][\A a \in AppointmentIds, m \in MethodInputs, d \in DetailInputs :
       (/\ Exists(appointments, a)
        /\ appointments[a].status # "confirmed"
        /\ CreatePaymentBegin(appointments[a].patientId, a, m, d))
       => /\ lastResp' = Resp("createPayment", 400, a,
                              "Appointment must be confirmed before payment")
          /\ payments' = payments
          /\ inflight' = inflight]_vars

(* C6 witness: the patient asked to pay a cancelled appointment whose      *)
(* payment had failed; the request was refused and the payment is still    *)
(* failed.                                                                 *)
C6_Witness ==
  \E p \in 1..Len(payments) :
    /\ lastResp = Resp("createPayment", 400, payments[p].appointmentId,
                       "Appointment must be confirmed before payment")
    /\ payments[p].status = "failed"
    /\ appointments[payments[p].appointmentId].status = "cancelled"
    /\ inflight = EmptyBag

(* C7: every appointment has at most one prescription, also when           *)
(* createPrescription requests overlap.                                    *)
C7_OnePrescriptionPerAppointment ==
  \A a \in 1..Len(appointments) :
    Cardinality({p \in 1..Len(prescriptions) :
                   prescriptions[p].appointmentId = a}) <= 1

C9_StartConsultationOnlyFromPaid ==
  /\ [](\A r \in Pending("startConsultation") :
          r.seen.status = "paid" /\ r.doc.status = "consultation")
  /\ [](\A a \in 1..Len(appointments) :
          lastResp = Resp("startConsultation", 200, a, "Consultation started successfully")
          => appointments[a].status = "consultation")
  /\ [][\A a \in AppointmentIds :
          (/\ Exists(appointments, a)
           /\ appointments[a].status # "paid"
           /\ StartConsultationBegin(appointments[a].doctorId, a))
          => /\ lastResp' = Resp("startConsultation", 400, a,
                                 "Appointment must be paid before starting consultation")
             /\ appointments' = appointments
             /\ inflight' = inflight]_vars
  /\ [][\A a \in AppointmentIds :
          (/\ lastResp = Resp("startConsultation", 200, a, "Consultation started successfully")
           /\ inflight = EmptyBag
           /\ StartConsultationBegin(appointments[a].doctorId, a))
          => /\ lastResp' = Resp("startConsultation", 400, a,
                                 "Appointment must be paid before starting consultation")
             /\ appointments'[a].status = "consultation"]_vars

(* C9 witness: the second startConsultation was refused, the appointment,  *)
(* paid for by a completed payment, is in consultation.                    *)
C9_Witness ==
  \E a \in 1..Len(appointments) :
    /\ lastResp = Resp("startConsultation", 400, a,
                       "Appointment must be paid before starting consultation")
    /\ appointments[a].status = "consultation"
    /\ a \in everConsult
    /\ a \in everCompleted
    /\ inflight = EmptyBag

(* C10: an appointment is in consultation only after a payment for it was  *)
(* set to completed.                                                       *)
C10_ConsultationOnlyAfterPayment ==
  \A a \in 1..Len(appointments) :
    appointments[a].status = "consultation" => a \in everCompleted

(* C11: when the clients follow the lifecycle every step succeeds and     *)
(* leaves the state the scenario names: booked pending, confirmed, payment *)
(* pending with the appointment still confirmed, payment completed with    *)
(* the appointment paid, consultation, an active prescription, and the     *)
(* read by appointment returns exactly that prescription.                  *)
C11_LifecycleSucceeds ==
  /\ lastResp.code \in {0, 200, 201}
  /\ inflight = EmptyBag =>
       /\ lastResp.op = "bookAppointment" =>
            Len(appointments) = 1 /\ appointments[1].status = "pending"
       /\ lastResp.op = "updateStatus" => appointments[1].status = "confirmed"
       /\ lastResp.op = "createPayment" =>
            /\ Len(payments) = 1 /\ payments[1].status = "pending"
            /\ payments[1].appointmentId = 1
            /\ appointments[1].status = "confirmed"
       /\ lastResp.op = "updatePaymentStatus" =>
            payments[1].status = "completed" /\ appointments[1].status = "paid"
       /\ lastResp.op = "startConsultation" => appointments[1].status = "consultation"
       /\ lastResp.op = "createPrescription" =>
            /\ Len(prescriptions) = 1 /\ prescriptions[1].status = "active"
            /\ prescriptions[1].appointmentId = 1
            /\ prescriptions[1].doctorId = appointments[1].doctorId
            /\ prescriptions[1].patientId = appointments[1].patientId
       /\ lastResp.op = "getPrescriptionByAppointment" =>
            /\ Len(prescriptions) = 1
            /\ lastResp.id = 1 /\ lastResp.body = prescriptions[1]

(* C11 witness: the whole scenario ran: the prescription of the completed  *)
(* payment's appointment was read back.                                    *)
C11_Witness ==
  /\ lastResp.op = "getPrescriptionByAppointment" /\ lastResp.code = 200
  /\ lastResp.body = prescriptions[1]
  /\ prescriptions[1].status = "active"
  /\ payments[1].status = "completed"
  /\ appointments[1].status = "consultation"

(* C12: bookAppointment with a dateTime at or before the server's clock    *)
(* is refused and books nothing, with 400 "Appointment must be in the      *)
(* future" when the caller is a patient and the doctor exists; a request   *)
(* goes on to book only with a dateTime after the clock at the call, and   *)
(* what it stores is a pending appointment at that dateTime.               *)
C12_BookingMustBeInFuture ==
  /\ [][\A c \in Users, d \in DoctorInputs, t \in DateTimes :
         (t <= now /\ BookBegin(c, d, t))
         => /\ lastResp'.op = "bookAppointment"
            /\ lastResp'.code \in {400, 403, 404}
            /\ (role(c) = "patient" /\ role(d) = "doctor")
                 => lastResp' = Resp("bookAppointment", 400, 0,
                                     "Appointment must be in the future")
            /\ appointments' = appointments
            /\ inflight' = inflight]_vars
  /\ [][\A r \in BagToSet(inflight') \ BagToSet(inflight) :
         (r.op = "bookAppointment" /\ r.pc = "find") => r.dateTime > now]_vars
  /\ [][Len(appointments') > Len(appointments)
         => \E r \in BagToSet(inflight) :
              /\ r.op = "bookAppointment"
              /\ appointments' = Append(appointments,
                    [patientId |-> r.patientId, doctorId |-> r.doctorId,
                     dateTime |-> r.dateTime, status |-> "pending"])
              /\ lastResp'.code = 201]_vars

(* C12 witness: a patient asked an existing doctor for an appointment at   *)
(* exactly the current time and was refused, after an earlier booking for  *)
(* a later time had succeeded.                                             *)
C12_Witness ==
  /\ lastResp = Resp("bookAppointment", 400, 0, "Appointment must be in the future")
  /\ now \in DateTimes
  /\ inflight = EmptyBag
  /\ \E i \in 1..Len(appointments) :
       appointments[i].status = "pending" /\ appointments[i].dateTime > now

(* C13: a booking whose doctor already has a non-cancelled appointment     *)
(* within 30 minutes, inclusive, of the requested dateTime is answered 400 *)
(* "Time slot not available", and no appointment is ever stored next to   *)
(* such an appointment.                                                    *)
C13_ConflictBlocksBooking ==
  /\ [][\A r \in BagToSet(inflight) :
         (/\ r.op = "bookAppointment" /\ r.pc = "find"
          /\ \E i \in 1..Len(appointments) :
               /\ appointments[i].doctorId = r.doctorId
               /\ appointments[i].status # "cancelled"
               /\ Abs(appointments[i].dateTime - r.dateTime) <= Window
          /\ BookFind(r))
         => lastResp' = Resp("bookAppointment", 400, 0, "Time slot not available")]_vars
  /\ [][Len(appointments') > Len(appointments)
         => LET n == appointments'[Len(appointments')] IN
            \A i \in 1..Len(appointments) :
              (appointments[i].doctorId = n.doctorId /\ appointments[i].status # "cancelled")
              => Abs(appointments[i].dateTime - n.dateTime) > Window]_vars

(* C14: updateStatus by a user who is not the appointment's doctor, or on  *)
(* an appointment that does not exist, is refused and changes nothing:     *)
(* 403 for a caller who is not the appointment's doctor, 404 for a doctor  *)
(* naming no appointment.                                                  *)
C14_UpdateStatusOnlyByOwningDoctor ==
  [][\A c \in Users, a \in AppointmentIds, s \in AppointmentStatusInputs :
       (/\ UpdateStatusBegin(c, a, s)
        /\ ~Exists(appointments, a) \/ appointments[a].doctorId # c)
       => /\ appointments' = appointments
          /\ inflight' = inflight
          /\ lastResp'.op = "updateStatus"
          /\ lastResp'.code \in {400, 403, 404}
          /\ (Exists(appointments, a) /\ (s \in AppointmentStatuses \/ role(c) # "doctor"))
               => lastResp'.code = 403
          /\ (~Exists(appointments, a) /\ s \in AppointmentStatuses /\ role(c) = "doctor")
               => lastResp' = Resp("updateStatus", 404, a, "Appointment not found")]_vars

(* C14 witness: a doctor other than the appointment's own asked for a      *)
(* status and was refused by the handler; the appointment keeps the status *)
(* its own doctor gave it.                                                 *)
C14_Witness ==
  /\ lastResp = Resp("updateStatus", 403, 1, "Not authorized")
  /\ Exists(appointments, 1)
  /\ appointments[1].status = "confirmed"
  /\ inflight = EmptyBag

(* C15: updateStatus by the appointment's doctor with a status outside     *)
(* {confirmed, paid, consultation, completed, cancelled}, pending          *)
(* included, answers 400 "Invalid status" and changes nothing.             *)
C15_UpdateStatusRefusesPending ==
  [][\A a \in AppointmentIds, s \in AppointmentStatusInputs :
       (/\ Exists(appointments, a)
        /\ s \notin {"confirmed", "paid", "consultation", "completed", "cancelled"}
        /\ UpdateStatusBegin(appointments[a].doctorId, a, s))
       => /\ lastResp' = Resp("updateStatus", 400, a, "Invalid status")
          /\ appointments' = appointments
          /\ inflight' = inflight]_vars

(* C20: getAppointmentById answers with the appointment when the caller    *)
(* is its patient, its doctor or an admin, and with 403 "Not authorized",  *)
(* carrying no document, for every other caller.                           *)
C20_AppointmentPrivateToParticipants ==
  [][\A c \in Users, a \in AppointmentIds :
       (Exists(appointments, a) /\ GetAppointmentById(c, a))
       => IF \/ c = appointments[a].patientId
             \/ c = appointments[a].doctorId
             \/ role(c) = "admin"
            THEN lastResp' = [op |-> "getAppointmentById", code |-> 200, id |-> a,
                              msg |-> "", body |-> appointments[a]]
            ELSE lastResp' = Resp("getAppointmentById", 403, a, "Not authorized")]_vars

(* C20 witness: a user who is neither participant nor admin asked for an   *)
(* existing appointment and was refused.                                   *)
C20_Witness ==
  /\ lastResp = Resp("getAppointmentById", 403, 1, "Not authorized")
  /\ Exists(appointments, 1)

(* C16: updatePaymentStatus by a user who is neither the payment's         *)
(* patient, nor its doctor, nor an admin is refused, with 403 "Not         *)
(* authorized" when the status value is valid, and changes no payment and  *)
(* no appointment.                                                         *)
C16_UpdatePaymentStatusOnlyByParties ==
  [][\A c \in Users, p \in PaymentIds, s \in PaymentStatusInputs, n \in NoteInputs :
       (/\ Exists(payments, p)
        /\ c # payments[p].patientId /\ c # payments[p].doctorId
        /\ role(c) # "admin"
        /\ UpdatePaymentStatusBegin(c, p, s, n))
       => /\ payments' = payments
          /\ appointments' = appointments
          /\ inflight' = inflight
          /\ lastResp'.op = "updatePaymentStatus"
          /\ lastResp'.code \in {400, 403}
          /\ s \in PaymentStatuses
               => lastResp' = Resp("updatePaymentStatus", 403, p, "Not authorized")]_vars

(* C16 witness: an outsider asked to change a payment that is pending and  *)
(* was refused.                                                            *)
C16_Witness ==
  /\ lastResp = Resp("updatePaymentStatus", 403, 1, "Not authorized")
  /\ Exists(payments, 1)
  /\ payments[1].status = "pending"
  /\ inflight = EmptyBag

(* C18: createPayment on a confirmed appointment whose payment is failed   *)
(* or cancelled stores no new payment: the request goes on to the existing *)
(* record, which keeps its id, appointmentId, patientId, doctorId and      *)
(* amount, takes the request's method and details and the generated        *)
(* transactionId, and becomes pending.                                     *)
C18_FailedPaymentIsRevivedInPlace ==
  /\ [][Len(payments') > Len(payments)
         => existingPayment(payments'[Len(payments')].appointmentId) = 0]_vars
  /\ [][\A r \in BagToSet(inflight) :
         (/\ r.op = "createPayment" /\ r.pc = "find"
          /\ existingPayment(r.appointmentId) # 0
          /\ payments[existingPayment(r.appointmentId)].status \in {"failed", "cancelled"}
          /\ CreatePaymentFind(r))
         => /\ payments' = payments
            /\ \E r2 \in BagToSet(inflight') :
                 /\ r2.op = "createPayment" /\ r2.pc = "revive"
                 /\ r2.id = existingPayment(r.appointmentId)]_vars
  /\ [][\A r \in BagToSet(inflight), txn \in TransactionIds :
         (CreatePaymentRevive(r, txn) /\ lastResp'.code = 200)
         => /\ Len(payments') = Len(payments)
            /\ \A j \in 1..Len(payments) : j # r.id => payments'[j] = payments[j]
            /\ payments'[r.id].appointmentId = payments[r.id].appointmentId
            /\ payments'[r.id].patientId = payments[r.id].patientId
            /\ payments'[r.id].doctorId = payments[r.id].doctorId
            /\ payments'[r.id].amount = payments[r.id].amount
            /\ payments'[r.id].paymentMethod = r.paymentMethod
            /\ payments'[r.id].paymentDetails = r.paymentDetails
            /\ payments'[r.id].transactionId = txn
            /\ payments'[r.id].status = "pending"]_vars

(* C18 witness: a payment that had failed is pending again after a         *)
(* createPayment answered 200, and it is still the appointment's only one. *)
C18_Witness ==
  /\ lastResp = Resp("createPayment", 200, 1, "Payment updated successfully")
  /\ Len(payments) = 1
  /\ payments[1].status = "pending"
  /\ paidOver = "none"
  /\ inflight = EmptyBag

(* C17: updatePrescription goes on to the save for the prescription's      *)
(* doctor and for an admin, and answers 403 for every other caller,        *)
(* leaving the prescription as it is.                                      *)
C17_UpdatePrescriptionByDoctorOrAdmin ==
  [][\A c \in Users, p \in PrescriptionIds, b \in PatchInputs :
       (Exists(prescriptions, p) /\ UpdatePrescriptionBegin(c, p, b))
       => IF c = prescriptions[p].doctorId \/ role(c) = "admin"
            THEN /\ lastResp' = lastResp
                 /\ \E r \in BagToSet(inflight') :
                      r.op = "updatePrescription" /\ r.id = p
            ELSE /\ lastResp'.op = "updatePrescription" /\ lastResp'.code = 403
                 /\ prescriptions' = prescriptions
                 /\ inflight' = inflight]_vars

(* C19: a step in which the status of an existing appointment changes is  *)
(* no step of bookAppointment, createPayment, createPrescription,          *)
(* updatePrescription or of a read; it is the write of updateStatus, of    *)
(* startConsultation, or of updatePaymentStatus with newStatus completed.  *)
C19_OnlyThreeOperationsWriteStatus ==
  [][(\E i \in 1..Len(appointments) : appointments'[i].status # appointments[i].status)
     => /\ ~(\/ \E c \in Users, d \in DoctorInputs, t \in DateTimes : BookBegin(c, d, t)
             \/ \E c \in Users, a \in AppointmentIds, m \in MethodInputs,
                   d \in DetailInputs : CreatePaymentBegin(c, a, m, d)
             \/ \E c \in Users, a \in AppointmentIds, b \in BodyInputs :
                  CreatePrescriptionBegin(c, a, b)
             \/ \E c \in Users, p \in PrescriptionIds, b \in PatchInputs :
                  UpdatePrescriptionBegin(c, p, b)
             \/ \E c \in Users, a \in AppointmentIds :
                  GetPrescriptionByAppointment(c, a) \/ GetAppointmentById(c, a)
             \/ \E r \in BagToSet(inflight) :
                  /\ r.op \in {"bookAppointment", "createPayment", "createPrescription",
                                "updatePrescription"}
                  /\ r \notin BagToSet(inflight'))
        /\ \A i \in 1..Len(appointments) :
             appointments'[i].status # appointments[i].status
             => \E r \in BagToSet(inflight) :
                  /\ r \notin BagToSet(inflight')
                  /\ \/ r.op \in {"updateStatus", "startConsultation"} /\ r.id = i
                     \/ /\ r.op = "updatePaymentStatus" /\ r.doc.status = "completed"
                        /\ r.doc.appointmentId = i]_vars

(* C19 witness: a prescription was created and then updated, a payment was *)
(* created, and the appointment is still in the consultation its doctor    *)
(* started.                                                                *)
C19_Witness ==
  /\ lastResp = Resp("updatePrescription", 200, 1, "Prescription updated successfully")
  /\ Len(payments) >= 1
  /\ appointments[1].status = "consultation"
  /\ inflight = EmptyBag

(* C22: a private_message of an authenticated socket is in the store before *)
(* its delivery is attempted; at that moment new_message is emitted exactly *)
(* when the registry holds a socket for the receiver, and to that socket;   *)
(* stored messages are never removed or changed, every new_message names a  *)
(* stored message, and getMessages returns every stored message between the *)
(* caller and the user asked for.                                           *)
C22_PersistedThenDelivered ==
  [][/\ Len(messages') >= Len(messages)
     /\ \A i \in 1..Len(messages) : messages'[i] = messages[i]
     /\ \A k \in 1..Len(emitted') : emitted'[k].message \in 1..Len(messages')
     /\ emitted' # emitted =>
          \E r \in BagToSet(inflight) : r.op = "private_message" /\ r.pc = "populate"
     /\ \A r \in BagToSet(inflight) :
          (/\ r.op = "private_message"
           /\ r.doc.senderId # ""
           /\ PrivateMessageDeliver(r))
          => /\ r.id \in 1..Len(messages)
             /\ messages[r.id] = r.doc
             /\ emitted' # emitted <=> connectedUsers[r.doc.receiverId] # 0
             /\ emitted' # emitted =>
                  emitted' = Append(emitted,
                                    [event |-> "new_message",
                                     to |-> connectedUsers[r.doc.receiverId],
                                     message |-> r.id])
     /\ \A c \in ChatUsers, u \in ChatUsers :
          GetMessages(c, u)
          => \A i \in 1..Len(messages) :
               {messages[i].senderId, messages[i].receiverId} = {c, u}
               => \E k \in 1..Len(lastResp'.body) : lastResp'.body[k] = i]_vars

(* C22 witness: two messages of authenticated senders are stored, one was   *)
(* emitted to its receiver and the other found no socket, and a getMessages *)
(* answered after both returns the two of them.                             *)
C22_Witness ==
  /\ inflight = EmptyBag
  /\ Len(messages) = 2
  /\ \A i \in 1..2 : messages[i].senderId # ""
  /\ Len(emitted) = 1
  /\ lastResp.op = "getMessages"
  /\ lastResp.code = 200
  /\ Len(lastResp.body) = 2

(* C25: a sent form carries exactly the rows whose name, dosage, frequency  *)
(* and duration all hold a character other than a blank, in the order of    *)
(* the form, and is sent only with such a row and a diagnosis that is not   *)
(* blank; a refused form has a blank diagnosis or no such row.              *)
NonBlank(t) == \E i \in 1..Len(t) : t[i] # " "

Complete(med) ==
  /\ NonBlank(med.name)
  /\ NonBlank(med.dosage)
  /\ NonBlank(med.frequency)
  /\ NonBlank(med.duration)

C25_FormSubmitsCompleteRows ==
  LET rows == form.medications
      kept == {i \in 1..Len(rows) : Complete(rows[i])}
      n == Cardinality(kept)
  IN /\ form.outcome = "sent" =>
          /\ NonBlank(form.diagnosis)
          /\ kept # {}
          /\ Len(form.sent) = 1
          /\ Len(form.sent[1].medications) = n
          /\ \E f \in [1..n -> kept] :
               /\ \A j, k \in 1..n : j < k => f[j] < f[k]
               /\ \A k \in 1..n : form.sent[1].medications[k] = rows[f[k]]
     /\ form.outcome = "refused" => (~NonBlank(form.diagnosis) \/ kept = {})

(* C25 witness: a form of two rows was sent; its first row has a name of    *)
(* blanks only and was dropped, its second row is the one row sent.         *)
C25_Witness ==
  /\ form.outcome = "sent"
  /\ Len(form.medications) = 2
  /\ form.medications[1].name = <<" ">>
  /\ Complete(form.medications[2])
  /\ form.sent[1].medications = <<form.medications[2]>>

(* C27: a user has an entry in connectedUsers exactly when one of the      *)
(* sockets authenticated as that user is still connected, and the entry     *)
(* names a connected socket.                                                *)
C27_RegistryAccurate ==
  \A u \in Users :
    /\ connectedUsers[u] # 0 <=>
         \E s \in SocketIds : sockets[s].state = "open" /\ sockets[s].userId = u
    /\ connectedUsers[u] # 0 => sockets[connectedUsers[u]].state = "open"

(* C23: startConsultation overlapping updateStatus or updatePaymentStatus   *)
(* on the same appointment behaves as in some serial order: at the moment   *)
(* its write stores consultation and it answers 200, the status in the      *)
(* store is paid.                                                           *)
C23_StartConsultationWritesOverPaid ==
  [][\A r \in BagToSet(inflight) :
       (/\ r.op = "startConsultation"
        /\ r.pc = "save"
        /\ inflight' = inflight (-) SetToBag({r})
        /\ lastResp'.op = "startConsultation"
        /\ lastResp'.code = 200)
       => appointments[r.id].status = "paid"]_vars

(* C26: no step removes a record: every appointment id, payment id and      *)
(* prescription id of a state is an id of the next state, and the record    *)
(* under it still belongs to the same appointment, patient and doctor.      *)
C26_RecordsAreNeverRemoved ==
  [][/\ Len(appointments') >= Len(appointments)
     /\ Len(payments') >= Len(payments)
     /\ Len(prescriptions') >= Len(prescriptions)
     /\ \A i \in 1..Len(appointments) :
          /\ appointments'[i].patientId = appointments[i].patientId
          /\ appointments'[i].doctorId = appointments[i].doctorId
     /\ \A i \in 1..Len(payments) :
          payments'[i].appointmentId = payments[i].appointmentId
     /\ \A i \in 1..Len(prescriptions) :
          prescriptions'[i].appointmentId = prescriptions[i].appointmentId]_vars

(* C26 witness: the appointment has been through payment and consultation, *)
(* its payment was afterwards set failed or cancelled and its prescription  *)
(* completed, and all three records are still there.                        *)
C26_Witness ==
  /\ Len(appointments) = 1
  /\ Len(prescriptions) = 1
  /\ prescriptions[1].status = "completed"
  /\ \E p \in 1..Len(payments) : payments[p].status \in {"failed", "cancelled"}
  /\ inflight = EmptyBag

(* C28: no step of an updatePaymentStatus request whose new status is       *)
(* pending, failed or cancelled changes an appointment, whatever the        *)
(* payment's status was before.                                             *)
C28_OnlyCompletionTouchesAppointment ==
  [][\A r \in BagToSet(inflight) :
       (/\ r.op = "updatePaymentStatus"
        /\ r.doc.status \in {"pending", "failed", "cancelled"}
        /\ CopiesIn(r, inflight') < CopiesIn(r, inflight))
       => appointments' = appointments]_vars

(* C28 witness: the payment had been completed and its appointment paid;    *)
(* the payment has since been set back to pending, failed or cancelled,     *)
(* and the appointment is still paid.                                       *)
C28_Witness ==
  /\ Len(payments) = 1
  /\ 1 \in everCompleted
  /\ payments[1].status \in {"pending", "failed", "cancelled"}
  /\ appointments[1].status = "paid"
  /\ lastResp = Resp("updatePaymentStatus", 200, 1, "Payment status updated successfully")

(* C30: a step of createPayment, whether it answers or goes on, leaves the  *)
(* status, paymentMethod, paymentDetails and transactionId of every payment *)
(* that is pending or completed as they are.                                *)
C30_CreatePaymentSparesActivePayments ==
  [][(\/ \E r \in BagToSet(inflight) :
          r.op = "createPayment" /\ CopiesIn(r, inflight') < CopiesIn(r, inflight)
      \/ lastResp'.op = "createPayment" /\ lastResp' # lastResp)
     => \A p \in 1..Len(payments) :
          payments[p].status \in {"pending", "completed"}
          => /\ payments'[p].status = payments[p].status
             /\ payments'[p].paymentMethod = payments[p].paymentMethod
             /\ payments'[p].paymentDetails = payments[p].paymentDetails
             /\ payments'[p].transactionId = payments[p].transactionId]_vars

(* C30 witness: createPayment was refused because the appointment's payment *)
(* is pending, and that payment is still pending with the method and the    *)
(* transaction id it had; the appointment has had a completed payment, so   *)
(* the payment was set back to pending after its completion.                *)
C30_Witness ==
  /\ lastResp = Resp("createPayment", 400, 1, "Payment already exists for this appointment")
  /\ Len(payments) = 1
  /\ payments[1].status = "pending"
  /\ payments[1].paymentMethod = "telebirr"
  /\ 1 \in everCompleted
  /\ inflight = EmptyBag

(* C29: every payment and every prescription carries the patientId and the *)
(* doctorId of the appointment it references.                               *)
C29_RecordsCarryTheAppointmentsParties ==
  /\ \A p \in 1..Len(payments) :
       /\ Exists(appointments, payments[p].appointmentId)
       /\ payments[p].patientId = appointments[payments[p].appointmentId].patientId
       /\ payments[p].doctorId = appointments[payments[p].appointmentId].doctorId
  /\ \A p \in 1..Len(prescriptions) :
       /\ Exists(appointments, prescriptions[p].appointmentId)
       /\ prescriptions[p].patientId =
            appointments[prescriptions[p].appointmentId].patientId
       /\ prescriptions[p].doctorId =
            appointments[prescriptions[p].appointmentId].doctorId

(* C29 witness: two appointments that share neither patient nor doctor,    *)
(* each with a payment and a prescription of its own.                       *)
C29_Witness ==
  /\ Len(appointments) = 2
  /\ appointments[1].patientId # appointments[2].patientId
  /\ appointments[1].doctorId # appointments[2].doctorId
  /\ \A a \in 1..2 :
       /\ \E p \in 1..Len(payments) : payments[p].appointmentId = a
       /\ \E p \in 1..Len(prescriptions) : prescriptions[p].appointmentId = a

(* C21: createPrescription stores a prescription only with a diagnosis that *)
(* is not empty and with at least one medication whose name, dosage,        *)
(* frequency and duration are all not empty.                                *)
C21_CreatedPrescriptionIsComplete ==
  [][\A r \in BagToSet(inflight) :
       (/\ r.op = "createPrescription"
        /\ Len(prescriptions') = Len(prescriptions) + 1)
       => LET created == prescriptions'[Len(prescriptions')] IN
            /\ created.diagnosis # ""
            /\ \E i \in 1..Len(created.medications) :
                 /\ created.medications[i].name # ""
                 /\ created.medications[i].dosage # ""
                 /\ created.medications[i].frequency # ""
                 /\ created.medications[i].duration # ""]_vars

(* C24: a successful updatePrescription changes, of the prescription it     *)
(* names, only fields that were supplied with a non-empty value: it never   *)
(* replaces the medications by an empty list; and it changes no other       *)
(* prescription and no appointment.                                         *)
C24_UpdateOverwritesOnlySuppliedFields ==
  [][\A r \in BagToSet(inflight) :
       (/\ r.op = "updatePrescription"
        /\ CopiesIn(r, inflight') < CopiesIn(r, inflight)
        /\ lastResp'.code = 200)
       => /\ appointments' = appointments
          /\ Len(prescriptions') = Len(prescriptions)
          /\ \A p \in 1..Len(prescriptions) :
               p # r.id => prescriptions'[p] = prescriptions[p]
          /\ prescriptions'[r.id].appointmentId = prescriptions[r.id].appointmentId
          /\ prescriptions'[r.id].doctorId = prescriptions[r.id].doctorId
          /\ prescriptions'[r.id].patientId = prescriptions[r.id].patientId
          /\ prescriptions'[r.id].medications # prescriptions[r.id].medications
               => prescriptions'[r.id].medications # <<>>]_vars

====
